---- MODULE Spec2Model ----
(***************************************************************************)
(* Model of the tool-runtime engine of the Python bridge SDK:              *)
(*   sdk/utils.py          get_platform_name, set_hugging_face_url         *)
(*   sdk/toolkit_config.py ToolkitConfig.load / get_binary_url             *)
(*   sdk/base_tool.py      BaseTool.get_binary_path / get_resource_path    *)
(*                         and the download, pruning and permission steps  *)
(*                                                                         *)
(* File names and URLs are sequences of tokens, so that basename           *)
(* extraction, the ".exe" suffix rule and the versioned-name pattern are   *)
(* computed rather than assumed.  The transfer library (pypdl), os.chmod,  *)
(* os.remove, xattr and the network probe are the environment: each call   *)
(* draws their outcome from the set of outcomes they can produce.          *)
(***************************************************************************)
EXTENDS Integers, Sequences, FiniteSets, TLC

VARIABLES
    platform_name,   \* result of get_platform_name() for this process
    configFile,      \* toolkit -> state of bridges/toolkits/<toolkit>/toolkit.json
    config_cache,    \* ToolkitConfig._config_cache: toolkit -> parsed document
    tools,           \* the tool instances constructed so far
    cli_progress,    \* BaseTool.cli_progress of the instances
    binsDir,         \* does <toolkits>/<toolkit>/bins exist
    binFiles,        \* files in the bins directory: name -> [size, exec]
    resFiles,        \* resource directories in bins: resource -> (name -> size)
    clock,           \* int(time.time() * 1000): the wall clock in milliseconds
    call             \* the last call made: arguments, outcome, events, fs operations

vars == <<platform_name, configFile, config_cache, tools, cli_progress, clock,
          binsDir, binFiles, resFiles, call>>

(***************************************************************************)
(* Bounds                                                                  *)
(***************************************************************************)
\* Number of URLs the modelled resource bundle declares.
BundleLen == 2

(***************************************************************************)
(* Sequence helpers                                                        *)
(***************************************************************************)
Last(s) == s[Len(s)]

Min(S) == CHOOSE x \in S : \A y \in S : x <= y

Max(S) == CHOOSE x \in S : \A y \in S : x >= y

EmptyDict == <<>>

\* python dict.get(key, default)
DictGet(d, k, default) == IF k \in DOMAIN d THEN d[k] ELSE default

Restrict(f, S) == [x \in S |-> f[x]]

\* continue with v, the result of the statements before
Then(v, K(_)) == K(v)

\* the elements of a finite set in some order (os.listdir order is arbitrary)
RECURSIVE SetToSeq(_)
SetToSeq(S) ==
    IF S = {} THEN <<>>
    ELSE LET x == CHOOSE y \in S : TRUE
         IN  <<x>> \o SetToSeq(S \ {x})

(***************************************************************************)
(* sdk/utils.py: platform resolution                                       *)
(***************************************************************************)
Systems == {"Linux", "Darwin", "Windows", "FreeBSD"}

Machines == {"x86_64", "AMD64", "aarch64", "arm64", "riscv64"}

Processors == {"", "i386", "Apple M1"}

\* str.lower() on the strings platform.system()/machine()/processor() return
Lower(s) ==
    CASE s = "Linux" -> "linux"
      [] s = "Darwin" -> "darwin"
      [] s = "Windows" -> "windows"
      [] s = "FreeBSD" -> "freebsd"
      [] s = "AMD64" -> "amd64"
      [] s = "Apple M1" -> "apple m1"
      [] OTHER -> s

\* 'apple' in s
ContainsApple(s) == s \in {"apple m1"}

\* a get_platform_name that compares the strings as the platform module
\* returns them
GetPlatformNameCaseSensitive(sys, machine, processor) ==
    IF sys = "linux"
    THEN IF machine \in {"x86_64", "amd64"} THEN "linux-x86_64"
         ELSE IF machine \in {"aarch64", "arm64"} THEN "linux-aarch64"
         ELSE "linux-x86_64"
    ELSE IF sys = "darwin"
    THEN IF machine \in {"arm64", "aarch64"} \/ ContainsApple(processor)
         THEN "macosx-arm64"
         ELSE "macosx-x86_64"
    ELSE IF sys = "windows" THEN "win-amd64"
    ELSE "unknown"

GetPlatformName(sys, machine, processor) ==
    LET system == Lower(sys)
        architecture == Lower(machine)
    IN  IF system = "linux"
        THEN IF architecture \in {"x86_64", "amd64"} THEN "linux-x86_64"
             ELSE IF architecture \in {"aarch64", "arm64"} THEN "linux-aarch64"
             ELSE "linux-x86_64"
        ELSE IF system = "darwin"
        THEN IF architecture \in {"arm64", "aarch64"} \/ ContainsApple(Lower(processor))
             THEN "macosx-arm64"
             ELSE "macosx-x86_64"
        ELSE IF system = "windows" THEN "win-amd64"
        ELSE "unknown"

PlatformTags == {"linux-x86_64", "linux-aarch64", "macosx-x86_64",
                 "macosx-arm64", "win-amd64", "unknown"}

\* str.startswith on a platform tag
IsWindowsTag(p) == p \in {"win-amd64"}

IsMacosTag(p) == p \in {"macosx-x86_64", "macosx-arm64"}

is_windows == IsWindowsTag(platform_name)

is_macos == IsMacosTag(platform_name)

(***************************************************************************)
(* File names and URLs as token sequences                                  *)
(***************************************************************************)
\* tokens matching \d+\.\d+\.\d+
VersionTokens == {"1.0.0", "1.1.0"}

PlatformTokens(p) ==
    CASE p = "linux-x86_64" -> <<"linux", "-", "x86", "_", "64">>
      [] p = "linux-aarch64" -> <<"linux", "-", "aarch64">>
      [] p = "macosx-x86_64" -> <<"macosx", "-", "x86", "_", "64">>
      [] p = "macosx-arm64" -> <<"macosx", "-", "arm64">>
      [] p = "win-amd64" -> <<"win", "-", "amd64">>
      [] OTHER -> <<"unknown">>

\* urlparse(url).path: from the first "/" after the origin up to "?" or "#"
UrlPath(url) ==
    LET stops == {i \in 1..Len(url) : url[i] \in {"?", "#"}}
        end == IF stops = {} THEN Len(url) ELSE Min(stops) - 1
    IN  SubSeq(url, 2, end)

\* os.path.basename(path): what follows the last "/"
Basename(path) ==
    LET slashes == {i \in 1..Len(path) : path[i] = "/"}
    IN  IF slashes = {} THEN path ELSE SubSeq(path, Max(slashes) + 1, Len(path))

\* s.split('?')[0]
SplitQuery(name) ==
    LET qs == {i \in 1..Len(name) : name[i] = "?"}
    IN  IF qs = {} THEN name ELSE SubSeq(name, 1, Min(qs) - 1)

EndsWithExe(name) == Len(name) > 0 /\ Last(name) = ".exe"

\* f"{actual_filename}.exe" if is_windows() and not actual_filename.endswith('.exe')
Executable(actual_filename, windows) ==
    IF windows /\ ~EndsWithExe(actual_filename)
    THEN actual_filename \o <<".exe">>
    ELSE actual_filename

HUGGING_FACE_URL == "https://huggingface.co"

HUGGING_FACE_MIRROR_URL == "https://hf-mirror.com"

\* 'huggingface.co' in url
ContainsHuggingFace(url) ==
    \E i \in 1..Len(url) : url[i] \in {"https://huggingface.co", "http://huggingface.co"}

\* set_hugging_face_url(url), given the outcome of can_access_hugging_face()
SetHuggingFaceUrl(url, can_access) ==
    IF ~ContainsHuggingFace(url) THEN url
    ELSE IF ~can_access
         THEN [i \in 1..Len(url) |->
                 IF url[i] = HUGGING_FACE_URL THEN HUGGING_FACE_MIRROR_URL ELSE url[i]]
         ELSE url

\* re.match(r'^(.+?)_(\d+\.\d+\.\d+)-(.*?)(?:\.exe)?$', name): the groups, or None
NoMatch == [matched |-> FALSE]

MatchVersioned(name) ==
    LET ks == {k \in 1..(Len(name) - 3) :
                  /\ name[k + 1] = "_"
                  /\ name[k + 2] \in VersionTokens
                  /\ name[k + 3] = "-"}
    IN  IF ks = {} THEN NoMatch
        ELSE LET k == Min(ks)
                 rest == SubSeq(name, k + 4, Len(name))
             IN  [matched |-> TRUE,
                  base |-> SubSeq(name, 1, k),
                  version |-> name[k + 2],
                  platform |-> IF EndsWithExe(rest)
                               THEN SubSeq(rest, 1, Len(rest) - 1)
                               ELSE rest]

(***************************************************************************)
(* The toolkit configuration document (bridges/toolkits/<tk>/toolkit.json) *)
(***************************************************************************)
Toolkits == {"music_audio"}

\* the tool instances of the toolkit, by their tool_name property
Tools == {"chatterbox_onnx"}

\* BaseTool.toolkit of the tool instances
ToolkitOf(self) == "music_audio"

\* self.tool_name.lower().replace('tool', '')
ToolConfigName(tool_name) ==
    CASE tool_name = "FfmpegTool" -> "ffmpeg"
      [] tool_name = "FfprobeTool" -> "ffprobe"
      [] tool_name = "YtdlpTool" -> "ytdlp"
      [] OTHER -> tool_name

BinaryBase == <<"chatterbox", "_", "onnx">>

\* {base}_{version}-{platform}[.exe]
VersionedName(base, version, p, exe) ==
    base \o <<"_", version, "-">> \o PlatformTokens(p)
         \o (IF exe THEN <<".exe">> ELSE <<>>)

ReleaseUrl(name) ==
    <<"https://github.com", "/", "leon-ai", "/", "leon-binaries", "/">> \o name

\* 'binaries' of chatterbox_onnx: three of the six platform tags are declared;
\* the Windows URL is declared without the .exe suffix
Binaries ==
    ("linux-x86_64" :> ReleaseUrl(VersionedName(BinaryBase, "1.1.0", "linux-x86_64", FALSE)))
    @@ ("macosx-arm64" :> ReleaseUrl(VersionedName(BinaryBase, "1.1.0", "macosx-arm64", FALSE)))
    @@ ("win-amd64" :> ReleaseUrl(VersionedName(BinaryBase, "1.1.0", "win-amd64", FALSE)))

MODEL_NAME == "chatterbox-multilingual-onnx"

\* the URLs a bundle can declare, in declaration order
BundleUrls ==
    << <<HUGGING_FACE_URL, "/", "onnx-community", "/", "resolve", "/", "model", ".onnx",
         "?", "download=true">>,
       <<"https://github.com", "/", "leon-ai", "/", "tokenizer", ".json">>,
       <<HUGGING_FACE_URL, "/", "onnx-community", "/", "resolve", "/", "config", ".json">>,
       <<"https://github.com", "/", "leon-ai", "/", "voices", ".bin", "#", "v1">> >>

\* a JSON value of 'resources' that is a list of URLs
JsonList(items) == [type |-> "list", items |-> items]

Resources ==
    (MODEL_NAME :> JsonList(SubSeq(BundleUrls, 1, BundleLen)))
    @@ ("default_voices" :> JsonList(<<>>))

\* what json.load yields for a valid toolkit.json
ToolkitDocument(toolkit_name) ==
    IF toolkit_name = "video_streaming"
    THEN [name |-> "Video & Streaming",
          tools |-> [ffmpeg |-> [description |-> "ffmpeg",
                                 binaries |-> EmptyDict,
                                 resources |-> EmptyDict]]]
    ELSE [name |-> "Music & Audio",
          tools |-> [chatterbox_onnx |-> [description |-> "tts",
                                           binaries |-> Binaries,
                                           resources |-> Resources]]]

ResourceNames == {MODEL_NAME, "default_voices", "undeclared"}

BinaryNames == {"chatterbox_onnx", "bash"}

(***************************************************************************)
(* Filesystem paths, status events and the record of one call              *)
(***************************************************************************)
Path(kind, res, name) == [kind |-> kind, res |-> res, name |-> name]

ConfigPath == Path("config", "", <<>>)

BinsPath == Path("bins_dir", "", <<>>)

BinPath(name) == Path("bin", "", name)

ResDirPath(r) == Path("res_dir", r, <<>>)

ResPath(r, name) == Path("res", r, name)

\* the machine a call runs on: filesystem, config cache, and what the call
\* has emitted and done so far
Machine ==
    [binsDir |-> binsDir, binFiles |-> binFiles, resFiles |-> resFiles,
     cache |-> config_cache, events |-> <<>>, ops |-> <<>>]

\* BaseTool.report(key, data): leon.answer with the key; file is the
\* file_name / old_version / deleted_file datum where the event has one
Report(m, key, file) ==
    [m EXCEPT !.events = Append(@, [key |-> key, file |-> file])]

\* one filesystem or network operation (os.*, open, pypdl, xattr, urlopen)
FsOp(m, op, path, res) ==
    [m EXCEPT !.ops = Append(@, [op |-> op, path |-> path, res |-> res])]

Bool(b) == IF b THEN "true" ELSE "false"

Returned(m, val) ==
    [m |-> m, exc |-> "none", cause |-> "", file |-> <<>>, msg |-> <<>>, val |-> val]

Raised(m, exc, cause, file) ==
    [m |-> m, exc |-> exc, cause |-> cause, file |-> file, msg |-> <<>>, val |-> <<>>]

\* raise Exception(msg): msg is the text of the exception, in pieces
RaisedWith(m, exc, msg) ==
    [m |-> m, exc |-> exc, cause |-> "", file |-> <<>>, msg |-> msg, val |-> <<>>]

\* os.path.exists(path), logged
Exists(m, path) ==
    CASE path.kind = "bins_dir" -> m.binsDir
      [] path.kind = "bin" -> path.name \in DOMAIN m.binFiles
      [] path.kind = "res_dir" -> path.res \in DOMAIN m.resFiles
      [] path.kind = "res" -> /\ path.res \in DOMAIN m.resFiles
                              /\ path.name \in DOMAIN m.resFiles[path.res]
      [] OTHER -> FALSE

\* os.path.getsize(path) of an existing file
GetSize(m, path) ==
    IF path.kind = "bin" THEN m.binFiles[path.name].size
    ELSE m.resFiles[path.res][path.name]

\* os.makedirs(path, exist_ok=True)
MakeDirs(m, path) ==
    IF path.kind = "res_dir"
    THEN [FsOp(m, "makedirs", path, "") EXCEPT
             !.binsDir = TRUE,
             !.resFiles = IF path.res \in DOMAIN @ THEN @
                          ELSE (path.res :> EmptyDict) @@ @]
    ELSE [FsOp(m, "makedirs", path, "") EXCEPT !.binsDir = TRUE]

(***************************************************************************)
(* sdk/toolkit_config.py                                                   *)
(***************************************************************************)
\* "if cache_key not in cls._config_cache": open and parse toolkit.json
\* a load that reads the file whether or not the toolkit is cached
ReadConfigAgain(m, toolkit_name, file) ==
    IF file # "valid"
    THEN Raised(FsOp(m, "open", ConfigPath, file), "ConfigNotFound", file, <<>>)
    ELSE Returned([FsOp(m, "open", ConfigPath, file) EXCEPT
                      !.cache = (toolkit_name :> ToolkitDocument(toolkit_name)) @@ @],
                  <<>>)

ReadConfig(m, toolkit_name, file) ==
    IF toolkit_name \in DOMAIN m.cache THEN Returned(m, <<>>)
    ELSE IF file # "valid"
    THEN Raised(FsOp(m, "open", ConfigPath, file), "ConfigNotFound", file, <<>>)
    ELSE Returned([FsOp(m, "open", ConfigPath, file) EXCEPT
                      !.cache = (toolkit_name :> ToolkitDocument(toolkit_name)) @@ @],
                  <<>>)

\* "tool_config = tools_config.get(tool_name); if not tool_config: raise"
LookupTool(m, tools_config, tool_name) ==
    IF tool_name \notin DOMAIN tools_config \/ DOMAIN tools_config[tool_name] = {}
    THEN Raised(m, "ToolNotFound", "", <<>>)
    ELSE Returned(m, tools_config[tool_name])

\* ToolkitConfig.load(toolkit_name, tool_name); file is the state of the
\* toolkit.json on disk
Load(m, toolkit_name, tool_name, file) ==
    Then(ReadConfig(FsOp(m, "load", ConfigPath, ""), toolkit_name, file), LAMBDA rd :
    IF rd.exc # "none" THEN rd
    ELSE LookupTool(rd.m, DictGet(rd.m.cache[toolkit_name], "tools", EmptyDict),
                    tool_name))

\* the absent URL (None); an empty string is falsy as well
NoUrl == <<>>

\* a get_binary_url that falls back to the Linux binary where the platform
\* is not declared
GetBinaryUrlWithFallback(config, p) ==
    LET binaries == DictGet(config, "binaries", EmptyDict)
    IN  DictGet(binaries, p, DictGet(binaries, "linux-x86_64", NoUrl))

\* ToolkitConfig.get_binary_url(config) on the platform p
GetBinaryUrl(config, p) ==
    LET binaries == DictGet(config, "binaries", EmptyDict)
    IN  DictGet(binaries, p, NoUrl)

(***************************************************************************)
(* The environment of one call                                             *)
(***************************************************************************)
\* How a pypdl transfer ends: its Failed flag, and what it leaves at the
\* destination ("absent": no file, "empty": a zero-length file, "data":
\* a file with content, complete or partial).
TransferOutcomes == [failed : BOOLEAN, after : {"absent", "empty", "data"}]

TransferOk == [failed |-> FALSE, after |-> "data"]

XattrOutcomes == {"removed", "warning", "exception"}

\* the size of what a transfer leaves
SizeAfter(outcome) == IF outcome.after = "data" THEN 1 ELSE 0

\* a transfer's effect on the files of one directory
WriteBin(files, name, outcome) ==
    IF outcome.after = "absent" THEN Restrict(files, DOMAIN files \ {name})
    ELSE (name :> [size |-> SizeAfter(outcome),
                   exec |-> IF name \in DOMAIN files THEN files[name].exec ELSE FALSE])
         @@ files

WriteRes(files, name, outcome) ==
    IF outcome.after = "absent" THEN Restrict(files, DOMAIN files \ {name})
    ELSE (name :> SizeAfter(outcome)) @@ files

\* dl.Failed once the transfer has ended
Ended(outcome) == IF outcome.failed THEN "failed" ELSE "completed"

\* dl.start(url, file_path): the state of the destination afterwards
Transfer(m, path, outcome) ==
    IF path.kind = "bin"
    THEN [FsOp(m, "transfer", path, Ended(outcome)) EXCEPT
             !.binFiles = WriteBin(@, path.name, outcome)]
    ELSE [FsOp(m, "transfer", path, Ended(outcome)) EXCEPT
             !.resFiles[path.res] = WriteRes(@, path.name, outcome)]

\* BaseTool._handle_download_progress(dl, file_name): polls until the
\* transfer has ended, then raises iff its Failed flag is set
HandleDownloadProgress(m, outcome) ==
    IF outcome.failed THEN Raised(m, "Exception", "Download failed", <<>>)
    ELSE Returned(m, <<>>)

\* dl.start(...) followed, with cli_progress, by _handle_download_progress
StartDownload(m, path, outcome, progress) ==
    IF progress THEN HandleDownloadProgress(Transfer(m, path, outcome), outcome)
    ELSE Returned(Transfer(m, path, outcome), <<>>)

\* a test that does not look at the size: "not os.path.exists(p)"
MissingOnly(m, path) == ~Exists(m, path)

\* "not os.path.exists(p) or os.path.getsize(p) == 0"
MissingOrEmpty(m, path) == ~Exists(m, path) \/ GetSize(m, path) = 0

\* the reads that test makes: exists, and getsize when the file exists
LogMissingOrEmpty(m, path) ==
    IF Exists(m, path)
    THEN FsOp(FsOp(m, "exists", path, "true"), "getsize", path,
              Bool(GetSize(m, path) # 0))
    ELSE FsOp(m, "exists", path, "false")

(***************************************************************************)
(* sdk/base_tool.py: binary acquisition                                    *)
(***************************************************************************)
\* "if not os.path.exists(d): os.makedirs(d, exist_ok=True)", with the
\* event the caller reports before creating the directory ("" for none)
EnsureDir(m, path, event) ==
    Then(FsOp(m, "exists", path, Bool(Exists(m, path))), LAMBDA m1 :
    IF Exists(m, path) THEN m1
    ELSE IF event = "" THEN MakeDirs(m1, path)
    ELSE MakeDirs(Report(m1, event, <<>>), path))

\* a verification that raises without reporting the failure event
VerifyDownloadUnreported(d, path, failEvent, exc, file) ==
    IF d.exc # "none"
    THEN Raised(d.m, exc, "transfer_failed", file)
    ELSE Then(LogMissingOrEmpty(d.m, path), LAMBDA m1 :
         IF MissingOrEmpty(d.m, path)
         THEN Raised(m1, exc, "empty_or_missing", file)
         ELSE Returned(m1, <<>>))

\* the verification after a transfer d = StartDownload(...): raise when the
\* transfer raised or the file is missing or empty, reporting failEvent
VerifyDownload(d, path, failEvent, exc, file) ==
    IF d.exc # "none"
    THEN Raised(Report(d.m, failEvent, file), exc, "transfer_failed", file)
    ELSE Then(LogMissingOrEmpty(d.m, path), LAMBDA m1 :
         IF MissingOrEmpty(d.m, path)
         THEN Raised(Report(m1, failEvent, file), exc, "empty_or_missing", file)
         ELSE Returned(m1, <<>>))

\* BaseTool._download_binary(url, output_path)
DownloadBinary(m, output_path, env, progress) ==
    Then(EnsureDir(Report(m, "downloading_from_url", <<>>), BinsPath, ""), LAMBDA m1 :
    VerifyDownload(StartDownload(m1, output_path, env.dl, progress), output_path,
                   "download_url_failed", "Exception", <<>>))

\* os.remove(path) of a file in bins
Remove(m, name) ==
    [FsOp(m, "remove", BinPath(name), "") EXCEPT
        !.binFiles = Restrict(@, DOMAIN @ \ {name})]

\* a pruning that looks at the base name and the version only
IsOlderVersionOfAnyPlatform(file_match, new) ==
    /\ file_match.matched
    /\ file_match.base = new.base
    /\ file_match.version # new.version

\* "same binary base name, same platform, different version"
IsOlderVersion(file_match, new) ==
    /\ file_match.matched
    /\ file_match.base = new.base
    /\ file_match.platform = new.platform
    /\ file_match.version # new.version

\* the loop of _delete_older_binary_versions over the directory listing;
\* ok is FALSE once os.remove has raised
RECURSIVE PruneLoop(_, _, _, _)
PruneLoop(m, files, new, unremovable) ==
    IF files = <<>> THEN [m |-> m, ok |-> TRUE]
    ELSE IF ~IsOlderVersion(MatchVersioned(Head(files)), new)
    THEN PruneLoop(m, Tail(files), new, unremovable)
    ELSE IF Head(files) \in unremovable
    THEN [m |-> FsOp(Report(m, "deleting_old_version", Head(files)),
                     "remove", BinPath(Head(files)), "error"),
          ok |-> FALSE]
    ELSE PruneLoop(Report(Remove(Report(m, "deleting_old_version", Head(files)),
                                 Head(files)),
                          "old_version_deleted", Head(files)),
                   Tail(files), new, unremovable)

\* os.listdir(bins_path): the files and the resource directories
ListDir(m) == DOMAIN m.binFiles \cup {<<r>> : r \in DOMAIN m.resFiles}

\* the except clause of _delete_older_binary_versions
PruneResult(r) == IF r.ok THEN r.m ELSE Report(r.m, "cleanup_warning", <<>>)

\* BaseTool._delete_older_binary_versions(bins_path, new_executable)
DeleteOlderBinaryVersions(m, new_executable, unremovable) ==
    IF ~MatchVersioned(new_executable).matched THEN m
    ELSE IF ~Exists(m, BinsPath) THEN FsOp(m, "exists", BinsPath, "false")
    ELSE PruneResult(PruneLoop(FsOp(FsOp(m, "exists", BinsPath, "true"),
                                    "listdir", BinsPath, ""),
                               SetToSeq(ListDir(m)), MatchVersioned(new_executable),
                               unremovable))

\* os.chmod(path, 0o755) of a file in bins; raises when the file is missing
\* or the process may not change its mode
Chmod(m, name, chmodOk) ==
    IF name \in DOMAIN m.binFiles /\ chmodOk
    THEN Returned([FsOp(m, "chmod", BinPath(name), "") EXCEPT
                      !.binFiles[name].exec = TRUE], <<>>)
    ELSE Raised(FsOp(m, "chmod", BinPath(name), "error"), "OSError", "chmod", name)

\* "if not is_windows(): self.report(event); os.chmod(binary_path, 0o755)"
ChmodUnlessWindows(m, name, event, chmodOk, windows) ==
    IF windows THEN Returned(m, <<>>)
    ELSE Chmod(Report(m, event, <<>>), name, chmodOk)

\* BaseTool._remove_quarantine_attribute(file_path)
RemoveQuarantineAttribute(m, name, xattr) ==
    Report(FsOp(m, "xattr", BinPath(name), xattr),
           CASE xattr = "removed" -> "quarantine_removed"
             [] xattr = "warning" -> "quarantine_warning"
             [] OTHER -> "quarantine_exception",
           name)

\* a _download_binary_on_demand in which a failed quarantine removal is an error
AfterDownloadRequiringQuarantineRemoval(m, executable, env, windows, macos) ==
    Then(ChmodUnlessWindows(
             DeleteOlderBinaryVersions(Report(m, "binary_downloaded", <<>>),
                                       executable, env.unremovable),
             executable, "making_executable", env.chmodOk, windows), LAMBDA ch :
    IF ch.exc # "none" \/ ~macos THEN ch
    ELSE IF env.xattr # "removed"
    THEN Raised(FsOp(Report(ch.m, "removing_quarantine", <<>>), "xattr",
                     BinPath(executable), env.xattr), "OSError", "xattr", executable)
    ELSE Returned(RemoveQuarantineAttribute(Report(ch.m, "removing_quarantine", <<>>),
                                            executable, env.xattr), <<>>))

\* a _download_binary_on_demand that prunes after the permission and quarantine steps
AfterDownloadPruningLast(m, executable, env, windows, macos) ==
    Then(ChmodUnlessWindows(Report(m, "binary_downloaded", <<>>), executable,
                            "making_executable", env.chmodOk, windows), LAMBDA ch :
    IF ch.exc # "none" THEN ch
    ELSE Returned(DeleteOlderBinaryVersions(
                      IF macos
                      THEN RemoveQuarantineAttribute(Report(ch.m, "removing_quarantine", <<>>),
                                                     executable, env.xattr)
                      ELSE ch.m,
                      executable, env.unremovable), <<>>))

\* the try block of _download_binary_on_demand after the transfer succeeded:
\* prune, then chmod, then (macOS) strip the quarantine attribute
AfterDownload(m, executable, env, windows, macos) ==
    Then(ChmodUnlessWindows(
             DeleteOlderBinaryVersions(Report(m, "binary_downloaded", <<>>),
                                       executable, env.unremovable),
             executable, "making_executable", env.chmodOk, windows), LAMBDA ch :
    IF ch.exc # "none" \/ ~macos THEN ch
    ELSE Returned(RemoveQuarantineAttribute(Report(ch.m, "removing_quarantine", <<>>),
                                            executable, env.xattr), <<>>))

\* the except clause of _download_binary_on_demand
OnDemandResult(r, executable) ==
    IF r.exc # "none"
    THEN Raised(Report(r.m, "download_failed", <<>>), "DownloadFailed", r.cause, executable)
    ELSE r

\* BaseTool._download_binary_on_demand(binary_name, binary_url, executable)
DownloadBinaryOnDemand(m, executable, env, progress, windows, macos) ==
    Then(DownloadBinary(Report(m, "binary_not_found", <<>>), BinPath(executable),
                        env, progress), LAMBDA dl :
    OnDemandResult(IF dl.exc # "none" THEN dl
                   ELSE AfterDownload(dl.m, executable, env, windows, macos),
                   executable))

\* a get_binary_path that downloads without looking for the file first
EnsureBinaryAlwaysDownloading(m, executable, env, progress, windows, macos) ==
    Then(EnsureDir(m, BinsPath, "creating_bins_directory"), LAMBDA m1 :
    Then(DownloadBinaryOnDemand(m1, executable, env, progress, windows, macos),
         LAMBDA dl :
    IF dl.exc # "none" THEN dl
    ELSE Returned(Report(dl.m, "binary_ready", <<>>), BinPath(executable))))

\* get_binary_path from "bins_path = ..." on: the URL is known
EnsureBinary(m, executable, env, progress, windows, macos) ==
    Then(EnsureDir(m, BinsPath, "creating_bins_directory"), LAMBDA m1 :
    Then(IF Exists(m1, BinPath(executable))
         THEN Returned(FsOp(m1, "exists", BinPath(executable), "true"), <<>>)
         ELSE DownloadBinaryOnDemand(FsOp(m1, "exists", BinPath(executable), "false"),
                                     executable, env, progress, windows, macos),
         LAMBDA dl :
    IF dl.exc # "none" THEN dl
    ELSE Then(ChmodUnlessWindows(dl.m, executable, "applying_permissions",
                                 env.chmodOk, windows), LAMBDA ch :
         IF ch.exc # "none" THEN ch
         ELSE Returned(Report(ch.m, "binary_ready", <<>>), BinPath(executable)))))

\* the file name get_binary_path derives from the URL
ExecutableOf(binary_url, windows) == Executable(Basename(UrlPath(binary_url)), windows)

\* a get_binary_path that loads the configuration before it looks at
\* skip_binary_download
GetBinaryPathLoadingFirst(m, self, binary_name, skip_binary_download, p, file, env, progress) ==
    Then(Load(m, ToolkitOf(self), ToolConfigName(self), file), LAMBDA config :
    IF config.exc # "none" THEN config
    ELSE IF skip_binary_download
    THEN Returned(config.m, Path("literal", binary_name, <<>>))
    ELSE
    Then(GetBinaryUrl(config.val, p), LAMBDA binary_url :
    IF binary_url = NoUrl
    THEN Raised(Report(Report(config.m, "checking_binary", <<>>), "no_binary_url", <<>>),
                "NoBinaryUrl", "", <<>>)
    ELSE EnsureBinary(Report(config.m, "checking_binary", <<>>),
                      ExecutableOf(binary_url, IsWindowsTag(p)), env, progress,
                      IsWindowsTag(p), IsMacosTag(p))))

\* a get_binary_path that looks for a file named after binary_name
GetBinaryPathNamedAfterArgument(m, self, binary_name, skip_binary_download, p, file, env, progress) ==
    IF skip_binary_download THEN Returned(m, Path("literal", binary_name, <<>>))
    ELSE
    Then(Load(m, ToolkitOf(self), ToolConfigName(self), file), LAMBDA config :
    IF config.exc # "none" THEN config
    ELSE
    Then(GetBinaryUrl(config.val, p), LAMBDA binary_url :
    IF binary_url = NoUrl
    THEN Raised(Report(Report(config.m, "checking_binary", <<>>), "no_binary_url", <<>>),
                "NoBinaryUrl", "", <<>>)
    ELSE EnsureBinary(Report(config.m, "checking_binary", <<>>),
                      Executable(<<binary_name>>, IsWindowsTag(p)), env, progress,
                      IsWindowsTag(p), IsMacosTag(p))))

\* BaseTool.get_binary_path(binary_name, skip_binary_download) of the tool
\* self on platform p; file is the state of toolkit.json, env the environment
GetBinaryPath(m, self, binary_name, skip_binary_download, p, file, env, progress) ==
    IF skip_binary_download THEN Returned(m, Path("literal", binary_name, <<>>))
    ELSE
    Then(Load(m, ToolkitOf(self), ToolConfigName(self), file), LAMBDA config :
    IF config.exc # "none" THEN config
    ELSE
    Then(GetBinaryUrl(config.val, p), LAMBDA binary_url :
    IF binary_url = NoUrl
    THEN Raised(Report(Report(config.m, "checking_binary", <<>>), "no_binary_url", <<>>),
                "NoBinaryUrl", "", <<>>)
    ELSE EnsureBinary(Report(config.m, "checking_binary", <<>>),
                      ExecutableOf(binary_url, IsWindowsTag(p)), env, progress,
                      IsWindowsTag(p), IsMacosTag(p))))

(***************************************************************************)
(* sdk/base_tool.py: resource bundle acquisition                           *)
(***************************************************************************)
\* file name of a declared URL: os.path.basename(urlparse(url).path).split('?')[0]
UrlFileName(url) == SplitQuery(Basename(UrlPath(url)))

\* a completeness check that never finds the bundle complete
IsResourceCompleteNever(m, r, resource_urls) == Returned(m, FALSE)

\* BaseTool._is_resource_complete(resource_path, resource_urls)
RECURSIVE IsResourceComplete(_, _, _)
IsResourceComplete(m, r, resource_urls) ==
    IF resource_urls = <<>> THEN Returned(m, TRUE)
    ELSE IF MissingOrEmpty(m, ResPath(r, UrlFileName(Head(resource_urls))))
    THEN Returned(LogMissingOrEmpty(m, ResPath(r, UrlFileName(Head(resource_urls)))),
                  FALSE)
    ELSE IsResourceComplete(
             LogMissingOrEmpty(m, ResPath(r, UrlFileName(Head(resource_urls)))),
             r, Tail(resource_urls))

\* set_hugging_face_url(resource_url) with its reachability probe logged
ProbeHuggingFace(m, resource_url) ==
    IF ContainsHuggingFace(resource_url)
    THEN FsOp(m, "probe", Path("network", "", <<>>), "")
    ELSE m

\* the try block of one iteration of the download loop
DownloadToFile(m, file_path, outcome, progress) ==
    Then(StartDownload(EnsureDir(Report(m, "downloading_resource_file", file_path.name),
                                 ResDirPath(file_path.res), ""),
                       file_path, outcome, progress), LAMBDA dl :
    Then(VerifyDownload(dl, file_path, "resource_file_download_failed",
                        "ResourceFileDownloadFailed", file_path.name), LAMBDA v :
    IF v.exc # "none" THEN v
    ELSE Returned(Report(v.m, "resource_file_downloaded", file_path.name), <<>>)))

\* an iteration that leaves a file alone when it is present and non-empty
DownloadResourceFileIfAbsent(m, r, resource_url, outcome, can_access, progress) ==
    IF MissingOrEmpty(m, ResPath(r, UrlFileName(resource_url)))
    THEN DownloadToFile(ProbeHuggingFace(m, resource_url),
                        ResPath(r, UrlFileName(SetHuggingFaceUrl(resource_url, can_access))),
                        outcome, progress)
    ELSE Returned(m, <<>>)

\* one iteration of the download loop of get_resource_path
DownloadResourceFile(m, r, resource_url, outcome, can_access, progress) ==
    DownloadToFile(ProbeHuggingFace(m, resource_url),
                   ResPath(r, UrlFileName(SetHuggingFaceUrl(resource_url, can_access))),
                   outcome, progress)

\* a download loop that starts at the first URL whose file is missing or empty
RECURSIVE DownloadLoopFromFirstMissing(_, _, _, _, _, _)
DownloadLoopFromFirstMissing(m, r, resource_urls, i, env, progress) ==
    IF i > Len(resource_urls) THEN Returned(m, <<>>)
    ELSE IF ~MissingOrEmpty(m, ResPath(r, UrlFileName(resource_urls[i])))
    THEN DownloadLoopFromFirstMissing(m, r, resource_urls, i + 1, env, progress)
    ELSE Then(DownloadResourceFile(m, r, resource_urls[i], env.dls[i],
                                   env.can_access, progress), LAMBDA d :
         IF d.exc # "none" THEN d
         ELSE DownloadLoopFromFirstMissing(d.m, r, resource_urls, i + 1, env, progress))

\* the download loop of get_resource_path from the i-th declared URL on
RECURSIVE DownloadLoop(_, _, _, _, _, _)
DownloadLoop(m, r, resource_urls, i, env, progress) ==
    IF i > Len(resource_urls) THEN Returned(m, <<>>)
    ELSE Then(DownloadResourceFile(m, r, resource_urls[i], env.dls[i],
                                   env.can_access, progress), LAMBDA d :
         IF d.exc # "none" THEN d
         ELSE DownloadLoop(d.m, r, resource_urls, i + 1, env, progress))

JsonNone == [type |-> "none", items |-> <<>>]

\* config.get('resources', {}).get(resource_name)
GetResourceUrls(config, resource_name) ==
    DictGet(DictGet(config, "resources", EmptyDict), resource_name, JsonNone)

\* get_resource_path from the completeness check on
AcquireBundle(m, resource_name, urls, env, progress) ==
    Then(IsResourceComplete(m, resource_name, urls), LAMBDA complete :
    IF complete.val
    THEN Returned(Report(complete.m, "resource_already_exists", <<>>),
                  ResDirPath(resource_name))
    ELSE Then(DownloadLoop(Report(complete.m, "downloading_resource", <<>>),
                           resource_name, urls, 1, env, progress), LAMBDA d :
         IF d.exc # "none" THEN d
         ELSE Returned(Report(d.m, "resource_downloaded", <<>>),
                       ResDirPath(resource_name))))

\* BaseTool.get_resource_path(resource_name) of the tool self
GetResourcePath(m, self, resource_name, file, env, progress) ==
    Then(Load(m, ToolkitOf(self), ToolConfigName(self), file), LAMBDA config :
    IF config.exc # "none" THEN config
    ELSE
    Then(GetResourceUrls(config.val, resource_name), LAMBDA resource_urls :
    IF resource_urls.type # "list" \/ Len(resource_urls.items) = 0
    THEN Raised(Report(Report(config.m, "checking_resource", <<>>),
                       "no_resource_urls", <<>>),
                "NoResourceUrls", "", <<>>)
    ELSE AcquireBundle(EnsureDir(Report(config.m, "checking_resource", <<>>),
                                 ResDirPath(resource_name),
                                 "creating_resource_directory"),
                       resource_name, resource_urls.items, env, progress)))

(***************************************************************************)
(* The state machine                                                       *)
(***************************************************************************)
\* the transfers among the operations of a call
Transfers(ops) == SelectSeq(ops, LAMBDA o : o.op = "transfer")

NumTransfers(ops) == Len(Transfers(ops))

NoPrior == [op |-> "none", arg |-> "", exc |-> "none", transfers |-> 0]

NoCall ==
    [seq |-> 0, op |-> "none", self |-> "", arg |-> "", skip |-> FALSE,
     exc |-> "none", cause |-> "", file |-> <<>>, msg |-> <<>>,
     val |-> Path("", "", <<>>),
     events |-> <<>>, ops |-> <<>>, prior |-> NoPrior]

\* what a call record keeps of the call made right before it
Prior(c) ==
    [op |-> c.op, arg |-> c.arg, exc |-> c.exc, transfers |-> NumTransfers(c.ops)]

\* the record of a finished call r of operation op; prior is the call made
\* before it when nobody changed the filesystem in between
CallRecord(op, self, arg, skip, r) ==
    [seq |-> 1 - call.seq, op |-> op, self |-> self, arg |-> arg, skip |-> skip,
     exc |-> r.exc, cause |-> r.cause, file |-> r.file, msg |-> r.msg,
     val |-> IF r.exc = "none" THEN r.val ELSE Path("", "", <<>>),
     events |-> r.m.events, ops |-> r.m.ops, prior |-> Prior(call)]

\* the machine state a finished call leaves
Commit(r) ==
    /\ binsDir' = r.m.binsDir
    /\ binFiles' = r.m.binFiles
    /\ resFiles' = r.m.resFiles
    /\ config_cache' = r.m.cache

\* the hosts the process is started on: one per declared platform, and one
\* whose platform the configuration does not declare
Hosts ==
    {<<"Linux", "x86_64", "">>, <<"Linux", "aarch64", "">>,
     <<"Darwin", "arm64", "Apple M1">>, <<"Windows", "AMD64", "">>}

\* the process has started: ToolkitConfig._config_cache is empty and no tool
\* has been constructed yet
Init ==
    /\ \E host \in Hosts : platform_name = GetPlatformName(host[1], host[2], host[3])
    /\ configFile \in [Toolkits -> {"valid", "missing", "corrupt"}]
    /\ config_cache = EmptyDict
    /\ tools = {}
    /\ cli_progress = TRUE
    /\ clock = 0
    /\ binsDir = FALSE
    /\ binFiles = EmptyDict
    /\ resFiles = EmptyDict
    /\ call = NoCall

\* the binary the configuration names for this platform, and the names other
\* releases leave in the bins directory
TargetName ==
    Executable(VersionedName(BinaryBase, "1.1.0", platform_name, FALSE), is_windows)

OldVersionName == VersionedName(BinaryBase, "1.0.0", platform_name, is_windows)

\* ChatterboxONNXTool.__init__: BaseTool.__init__ (cli_progress = True), then
\* ToolkitConfig.load; the instance exists only when the load has succeeded
ToolInit(m, self, file) == Load(m, ToolkitOf(self), self, file)

Construct ==
    \E self \in Tools \ tools :
      \E r \in {ToolInit(Machine, self, configFile[ToolkitOf(self)])} :
          /\ Commit(r)
          /\ tools' = IF r.exc = "none" THEN tools \cup {self} ELSE tools
          /\ call' = CallRecord("__init__", self, "", FALSE, r)
          /\ UNCHANGED <<platform_name, configFile, cli_progress, clock>>

\* the environment in which nothing goes wrong
BinaryEnvOk ==
    [dl |-> TransferOk, chmodOk |-> TRUE, unremovable |-> {}, xattr |-> "removed"]

\* the transfers that do not leave a good file
FailingOutcomes == TransferOutcomes \ {TransferOk}

\* the environments a get_binary_path call can meet: the transfer does not
\* leave a good file, or it does and chmod, os.remove and xattr each succeed
\* or fail (an outcome is drawn only for what the platform and the bins
\* directory let the call reach)
BinaryEnvs(skip) ==
    IF skip THEN {BinaryEnvOk}
    ELSE (IF TargetName \in DOMAIN binFiles THEN {}
          ELSE {[BinaryEnvOk EXCEPT !.dl = o] : o \in FailingOutcomes})
         \cup [dl : {TransferOk},
               chmodOk : IF is_windows THEN {TRUE} ELSE BOOLEAN,
               unremovable : IF OldVersionName \in DOMAIN binFiles
                                /\ TargetName \notin DOMAIN binFiles
                             THEN {{}, {OldVersionName}} ELSE {{}},
               xattr : IF is_macos /\ TargetName \notin DOMAIN binFiles
                       THEN XattrOutcomes ELSE {"removed"}]

GetBinaryPathCall ==
    \E self \in tools, binary_name \in BinaryNames, skip \in BOOLEAN :
      \E env \in BinaryEnvs(skip) :
        \E r \in {GetBinaryPath(Machine, self, binary_name, skip, platform_name,
                                 configFile[ToolkitOf(self)], env, cli_progress)} :
            /\ Commit(r)
            /\ call' = CallRecord("get_binary_path", self, binary_name, skip, r)
            /\ UNCHANGED <<platform_name, configFile, tools, cli_progress, clock>>

\* the transfers of a bundle acquisition: all succeed, or the transfer of
\* the k-th URL is the first that does not leave a good file
ResourceEnvOk(a) == [dls |-> [i \in 1..BundleLen |-> TransferOk], can_access |-> a]

\* every file the bundle declares is in place (so the call starts no transfer)
BundleInPlace(resource_name) ==
    IsResourceComplete(Machine, resource_name, Resources[resource_name].items).val

ResourceEnvs(resource_name) ==
    IF resource_name # MODEL_NAME \/ BundleInPlace(resource_name)
    THEN {ResourceEnvOk(TRUE)}
    ELSE {ResourceEnvOk(a) : a \in BOOLEAN}
         \cup {[dls |-> [i \in 1..BundleLen |-> IF i = k THEN o ELSE TransferOk],
                can_access |-> a] :
                 k \in 1..BundleLen, o \in FailingOutcomes, a \in BOOLEAN}

GetResourcePathCall ==
    \E self \in tools, resource_name \in ResourceNames :
      \E env \in ResourceEnvs(resource_name) :
        \E r \in {GetResourcePath(Machine, self, resource_name,
                                   configFile[ToolkitOf(self)], env, cli_progress)} :
            /\ Commit(r)
            /\ call' = CallRecord("get_resource_path", self, resource_name, FALSE, r)
            /\ UNCHANGED <<platform_name, configFile, tools, cli_progress, clock>>

\* Someone else changes the bins directory between two calls: another
\* release of the binary is installed, or a file is deleted.
BinsMutation ==
    /\ \/ \E name \in {OldVersionName} \ DOMAIN binFiles :
             /\ binsDir' = TRUE
             /\ binFiles' = (name :> [size |-> 1, exec |-> TRUE]) @@ binFiles
       \/ \E name \in DOMAIN binFiles :
             /\ binFiles' = Restrict(binFiles, DOMAIN binFiles \ {name})
             /\ UNCHANGED binsDir
    /\ call' = NoCall
    /\ UNCHANGED <<platform_name, configFile, config_cache, tools, cli_progress, clock,
                   resFiles>>

\* Someone else deletes or truncates a file of a resource directory.
ResourceMutation ==
    /\ \E r \in DOMAIN resFiles : \E name \in DOMAIN resFiles[r] :
          \/ resFiles' = [resFiles EXCEPT ![r] = Restrict(@, DOMAIN @ \ {name})]
          \/ resFiles' = [resFiles EXCEPT ![r][name] = 0]
    /\ call' = NoCall
    /\ UNCHANGED <<platform_name, configFile, config_cache, tools, cli_progress, clock,
                   binsDir, binFiles>>

Next ==
    \/ Construct
    \/ GetBinaryPathCall
    \/ GetResourcePathCall
    \/ BinsMutation
    \/ ResourceMutation

Spec == Init /\ [][Next]_vars

\* the binary side alone, and the resource side alone
NextBinary == Construct \/ GetBinaryPathCall \/ BinsMutation

SpecBinary == Init /\ [][NextBinary]_vars

NextResource == Construct \/ GetResourcePathCall \/ ResourceMutation

SpecResource == Init /\ [][NextResource]_vars

(***************************************************************************)
(* Vocabulary of the properties                                            *)
(***************************************************************************)
\* this step is a call of operation op: a call flips call.seq, a change by
\* someone else resets the record
IsCall(op) == call'.op = op /\ call'.seq # call.seq

\* the file names of the transfers a call started, in the order it started them
TransferredFiles(ops) == [i \in 1..NumTransfers(ops) |-> Transfers(ops)[i].path.name]

OpsOf(ops, kinds) == {i \in 1..Len(ops) : ops[i].op \in kinds}

EventKeys(events) == {events[i].key : i \in 1..Len(events)}

\* the configuration of the tool can be loaded (from the cache or the file)
ConfigAvailable ==
    "music_audio" \in DOMAIN config_cache \/ configFile["music_audio"] = "valid"

\* a non-empty file of that name is in the bins directory
BinaryInPlace(name) == name \in DOMAIN binFiles /\ binFiles[name].size > 0

\* the files the bundle declares, named after the basenames of the URL paths
DeclaredFiles ==
    SubSeq(<< <<"model", ".onnx">>, <<"tokenizer", ".json">>,
              <<"config", ".json">>, <<"voices", ".bin">> >>, 1, BundleLen)

\* a non-empty file of that name is in the resource directory of the bundle
ResourceInPlace(name) ==
    /\ MODEL_NAME \in DOMAIN resFiles
    /\ name \in DOMAIN resFiles[MODEL_NAME]
    /\ resFiles[MODEL_NAME][name] # 0

AllInPlace == \A i \in 1..BundleLen : ResourceInPlace(DeclaredFiles[i])

\* the step is a get_resource_path call for the bundle
IsBundleCall == IsCall("get_resource_path") /\ call'.arg = MODEL_NAME

\* the call c was a get_resource_path call for the bundle
WasBundleCall(c) == c.op = "get_resource_path" /\ c.arg = MODEL_NAME

(***************************************************************************)
(* C1                                                                      *)
(***************************************************************************)
\* C1: whenever get_binary_path with skip_binary_download = false has
\* returned a path, a file exists at that path and it is non-empty.
C1_ReturnedBinaryIsNonEmpty ==
    (call.op = "get_binary_path" /\ ~call.skip /\ call.exc = "none")
        => call.val.kind = "bin" /\ BinaryInPlace(call.val.name)

\* C1, the failing case: the call found a zero-length file at the target
\* (left by an earlier transfer), started no transfer and returned its path.
C1_EmptyBinaryReturned ==
    /\ call.op = "get_binary_path" /\ ~call.skip /\ call.exc = "none"
    /\ NumTransfers(call.ops) = 0
    /\ call.val.name \in DOMAIN binFiles
    /\ binFiles[call.val.name].size = 0

(***************************************************************************)
(* C2                                                                      *)
(***************************************************************************)
\* two consecutive get_binary_path calls of the same tool: call is the first
\* (nobody changed the filesystem since), the step is the second
ConsecutiveBinaryCalls ==
    call.op = "get_binary_path" /\ IsCall("get_binary_path") /\ call'.self = call.self

\* the first call's transfer left no file at its destination
FirstLeftNothing ==
    /\ NumTransfers(call.ops) = 1
    /\ call.exc # "none"
    /\ Transfers(call.ops)[1].path.name \notin DOMAIN binFiles

\* C2 as stated: two consecutive get_binary_path calls of the same tool, with
\* no filesystem change by anyone else in between, start at most one transfer
\* in total.
C2_AtMostOneTransferInTotal ==
    [][ConsecutiveBinaryCalls
          => NumTransfers(call.ops) + NumTransfers(call'.ops) <= 1]_vars

\* C2, amended: each of two consecutive get_binary_path calls starts at most
\* one transfer, and both together start at most one unless the transfer of
\* the first call failed and left no file at the target path.
C2_AtMostOneTransferUnlessFirstLeftNothing ==
    [][ConsecutiveBinaryCalls
          => /\ NumTransfers(call.ops) <= 1
             /\ NumTransfers(call'.ops) <= 1
             /\ ~FirstLeftNothing
                  => NumTransfers(call.ops) + NumTransfers(call'.ops) <= 1]_vars

\* C2, the case: the call before downloaded the binary, this call returned
\* the same file without a transfer
C2_SecondCallReusesDownload ==
    /\ call.op = "get_binary_path" /\ ~call.skip /\ call.exc = "none"
    /\ call.prior.op = "get_binary_path" /\ call.prior.transfers = 1
    /\ call.prior.exc = "none"
    /\ NumTransfers(call.ops) = 0

(***************************************************************************)
(* C3                                                                      *)
(***************************************************************************)
\* C3: a get_resource_path call starts no transfer when every declared file
\* of the bundle is in the resource directory with non-zero size; and a call
\* right after a successful call starts no transfer.
C3_CompleteBundleStartsNoTransfer ==
    [][IsBundleCall
          => /\ AllInPlace => NumTransfers(call'.ops) = 0
             /\ (WasBundleCall(call) /\ call.exc = "none")
                  => NumTransfers(call'.ops) = 0]_vars

\* C3, the case: the call before downloaded the whole bundle, this call
\* returned the directory without a transfer
C3_SecondCallTransfersNothing ==
    /\ WasBundleCall(call) /\ call.exc = "none" /\ NumTransfers(call.ops) = 0
    /\ WasBundleCall(call.prior) /\ call.prior.exc = "none"
    /\ call.prior.transfers = BundleLen

(***************************************************************************)
(* C4                                                                      *)
(***************************************************************************)
\* C4: whenever get_resource_path has returned a directory, every file the
\* bundle declares exists in that directory and is non-empty.
C4_ReturnedBundleIsComplete ==
    (call.op = "get_resource_path" /\ call.exc = "none")
        => /\ call.arg = MODEL_NAME
           /\ call.val = ResDirPath(MODEL_NAME)
           /\ AllInPlace

\* C4, the case: a call that transferred every declared file returned
C4_BundleDownloadedAndReturned ==
    /\ WasBundleCall(call) /\ call.exc = "none"
    /\ NumTransfers(call.ops) = BundleLen

(***************************************************************************)
(* C5                                                                      *)
(***************************************************************************)
\* the transfers are those of the first n declared files, in declaration order
InDeclarationOrder(files) ==
    /\ Len(files) <= BundleLen
    /\ files = SubSeq(DeclaredFiles, 1, Len(files))

\* C5: when a declared file of the bundle is missing or zero-length, a
\* get_resource_path call starts a transfer for every declared URL in
\* declaration order, from the first one until one fails, the files already
\* present and non-empty included.
C5_IncompleteBundleIsDownloadedWhole ==
    [][(IsBundleCall /\ ConfigAvailable /\ ~AllInPlace)
          => /\ InDeclarationOrder(TransferredFiles(call'.ops))
             /\ NumTransfers(call'.ops) >= 1
             /\ call'.exc = "none" => NumTransfers(call'.ops) = BundleLen
             /\ call'.exc # "none"
                  => call'.file = Last(TransferredFiles(call'.ops))]_vars

\* C5, the case: the call found the first declared file present and
\* non-empty, another one not, and transferred every declared file
C5_PresentFileTransferredAgain ==
    /\ WasBundleCall(call) /\ call.exc = "none"
    /\ NumTransfers(call.ops) = BundleLen
    /\ \E i \in OpsOf(call.ops, {"getsize"}) :
          call.ops[i].path.name = DeclaredFiles[1] /\ call.ops[i].res = "true"

(***************************************************************************)
(* C6                                                                      *)
(***************************************************************************)
\* the call c downloaded some files of the bundle and failed at a later one
PartialFailure(c) ==
    /\ WasBundleCall(c)
    /\ c.exc = "ResourceFileDownloadFailed"
    /\ NumTransfers(c.ops) >= 2

\* the files the call downloaded before the one that failed are on disk
DownloadedFilesRemain(c) ==
    \A i \in 1..(NumTransfers(c.ops) - 1) : ResourceInPlace(TransferredFiles(c.ops)[i])

\* C6 as stated: after a bundle acquisition that downloaded some files and
\* failed at a later one, the downloaded files remain, the call has raised,
\* and a re-invocation transfers only files that are missing or zero-length.
C6_ReinvocationSkipsPresentFiles ==
    [][PartialFailure(call)
          => /\ DownloadedFilesRemain(call)
             /\ IsBundleCall
                  => \A i \in 1..NumTransfers(call'.ops) :
                        ~ResourceInPlace(TransferredFiles(call'.ops)[i])]_vars

\* C6, amended: after such an acquisition the downloaded files remain and the
\* call has raised; a re-invocation transfers nothing when every declared file
\* is present and non-empty, and otherwise starts again at the first declared
\* URL, which is present and non-empty, and goes on in declaration order.
C6_ReinvocationStartsOver ==
    [][PartialFailure(call)
          => /\ DownloadedFilesRemain(call)
             /\ ResourceInPlace(DeclaredFiles[1])
             /\ IsBundleCall
                  => IF AllInPlace
                     THEN NumTransfers(call'.ops) = 0
                     ELSE /\ NumTransfers(call'.ops) >= 1
                          /\ InDeclarationOrder(TransferredFiles(call'.ops))]_vars

\* C6, the case: the call before failed at a later file, this call
\* transferred again from the first file
C6_ReinvokedAfterPartialFailure ==
    /\ WasBundleCall(call) /\ NumTransfers(call.ops) >= 1
    /\ WasBundleCall(call.prior)
    /\ call.prior.exc = "ResourceFileDownloadFailed"
    /\ call.prior.transfers >= 2

(***************************************************************************)
(* C7                                                                      *)
(***************************************************************************)
\* the i-th transfer of the last call failed, or left its file missing or empty
BadTransfer(i) ==
    \/ Transfers(call.ops)[i].res = "failed"
    \/ ~ResourceInPlace(TransferredFiles(call.ops)[i])

\* C7: if the transfer of a file of the bundle fails or leaves the file
\* missing or zero-length, get_resource_path raises
\* ResourceFileDownloadFailed naming that file, having reported
\* resource_file_download_failed for it as its last event, without reporting
\* resource_downloaded or returning the directory.
C7_FailedFileFailsTheBundle ==
    WasBundleCall(call)
        => \A i \in 1..NumTransfers(call.ops) :
              BadTransfer(i)
                => /\ i = NumTransfers(call.ops)
                   /\ call.exc = "ResourceFileDownloadFailed"
                   /\ call.file = TransferredFiles(call.ops)[i]
                   /\ Len(call.events) > 0
                   /\ Last(call.events) = [key |-> "resource_file_download_failed",
                                           file |-> TransferredFiles(call.ops)[i]]
                   /\ "resource_downloaded" \notin EventKeys(call.events)
                   /\ call.val.kind = ""

\* C7, the case: the transfer of a later file of the bundle ended without the
\* failure flag and left a zero-length file
C7_LaterFileLeftEmpty ==
    /\ WasBundleCall(call) /\ NumTransfers(call.ops) >= 2
    /\ Last(Transfers(call.ops)).res = "completed"
    /\ MODEL_NAME \in DOMAIN resFiles
    /\ Last(TransferredFiles(call.ops)) \in DOMAIN resFiles[MODEL_NAME]
    /\ resFiles[MODEL_NAME][Last(TransferredFiles(call.ops))] = 0
    /\ call.exc = "ResourceFileDownloadFailed"

(***************************************************************************)
(* C8                                                                      *)
(***************************************************************************)
\* the platform tags the configuration of the tool declares a binary for
DeclaredPlatforms == {"linux-x86_64", "macosx-arm64", "win-amd64"}

\* the operations that change the filesystem or start a transfer
Effects == {"transfer", "chmod", "remove", "makedirs", "xattr"}

\* C8: when the configuration declares no binary for the platform tag,
\* get_binary_path (skip_binary_download = false) raises NoBinaryUrl, having
\* started no transfer, changed no permission, deleted nothing and created
\* nothing (not even the bins directory); and get_binary_url returns "no URL"
\* for every tag the configuration does not declare.
C8_UndeclaredPlatformRaisesNoBinaryUrl ==
    [][(IsCall("get_binary_path") /\ ~call'.skip /\ ConfigAvailable
          /\ platform_name \notin DeclaredPlatforms)
          => /\ call'.exc = "NoBinaryUrl"
             /\ OpsOf(call'.ops, Effects) = {}
             /\ UNCHANGED <<binsDir, binFiles, resFiles>>
             /\ \A p \in PlatformTags \ DeclaredPlatforms :
                   GetBinaryUrl(config_cache'["music_audio"].tools.chatterbox_onnx, p)
                       = NoUrl]_vars

\* C8, the case: the call raised NoBinaryUrl and there is no bins directory
C8_NoBinaryUrlRaised ==
    /\ call.op = "get_binary_path" /\ ~call.skip
    /\ call.exc = "NoBinaryUrl"
    /\ platform_name \notin DeclaredPlatforms
    /\ ~binsDir

(***************************************************************************)
(* C9                                                                      *)
(***************************************************************************)
\* C9: with skip_binary_download set, get_binary_path returns binary_name
\* unchanged, and changes nothing: the config cache and the filesystem stay
\* as they are, and the call reads nothing, transfers nothing and reports no
\* event.
C9_SkipReturnsNameAndChangesNothing ==
    [][(IsCall("get_binary_path") /\ call'.skip)
          => /\ call'.exc = "none"
             /\ call'.val = Path("literal", call'.arg, <<>>)
             /\ call'.ops = <<>>
             /\ call'.events = <<>>
             /\ UNCHANGED <<config_cache, binsDir, binFiles, resFiles>>]_vars

\* C9, the case: a skipping call has returned "bash" while the bins
\* directory holds a binary of the tool
C9_SkippedBesideABinary ==
    /\ call.op = "get_binary_path" /\ call.skip
    /\ call.val = Path("literal", "bash", <<>>)
    /\ binFiles # EmptyDict

(***************************************************************************)
(* C10                                                                     *)
(***************************************************************************)
\* the file get_binary_path looks for on this platform
ExpectedBinary ==
    <<"chatterbox", "_", "onnx", "_", "1.1.0", "-">> \o PlatformTokens(platform_name)
        \o (IF platform_name = "win-amd64" THEN <<".exe">> ELSE <<>>)

\* the bins directory after the executable bit of name has been set
WithExecutableBit(name) ==
    [binFiles EXCEPT ![name].exec = IF platform_name = "win-amd64" THEN @ ELSE TRUE]

\* C10: when the target binary is already there, get_binary_path starts no
\* transfer and deletes nothing, its only filesystem effect is setting the
\* executable bit of the target (non-Windows), and it returns the path; a call
\* deletes files only after a transfer of its own, and get_resource_path
\* never deletes any.
C10_PresentBinaryIsReturnedUntouched ==
    [][/\ (IsCall("get_binary_path") /\ ~call'.skip /\ ConfigAvailable
             /\ ExpectedBinary \in DOMAIN binFiles)
          => /\ NumTransfers(call'.ops) = 0
             /\ OpsOf(call'.ops, {"remove"}) = {}
             /\ binFiles' = WithExecutableBit(ExpectedBinary)
             /\ UNCHANGED <<binsDir, resFiles>>
             /\ call'.exc = "none"
             /\ call'.val = BinPath(ExpectedBinary)
       /\ (call'.seq # call.seq /\ OpsOf(call'.ops, {"remove"}) # {})
          => call'.op = "get_binary_path" /\ NumTransfers(call'.ops) = 1]_vars

\* C10 without the return: as C10_PresentBinaryIsReturnedUntouched, but the
\* call may raise when os.chmod does
C10_PresentBinaryIsNeverReplaced ==
    [][/\ (IsCall("get_binary_path") /\ ~call'.skip /\ ConfigAvailable
             /\ ExpectedBinary \in DOMAIN binFiles)
          => /\ NumTransfers(call'.ops) = 0
             /\ OpsOf(call'.ops, {"remove"}) = {}
             /\ binFiles' \in {binFiles, WithExecutableBit(ExpectedBinary)}
             /\ UNCHANGED <<binsDir, resFiles>>
             /\ call'.exc = "none" => /\ call'.val = BinPath(ExpectedBinary)
                                      /\ binFiles' = WithExecutableBit(ExpectedBinary)
             /\ call'.exc # "none" => call'.exc = "OSError" /\ binFiles' = binFiles
       /\ (call'.seq # call.seq /\ OpsOf(call'.ops, {"remove"}) # {})
          => call'.op = "get_binary_path" /\ NumTransfers(call'.ops) = 1]_vars

\* C10, the failing case: the call found the binary, os.chmod raised, and the
\* call raised instead of returning the path
C10_PresentBinaryButCallRaised ==
    /\ call.op = "get_binary_path" /\ ~call.skip
    /\ NumTransfers(call.ops) = 0
    /\ call.exc = "OSError"
    /\ ExpectedBinary \in DOMAIN binFiles

(***************************************************************************)
(* Version pruning on its own: _delete_older_binary_versions applied to    *)
(* bins directories of every content                                       *)
(***************************************************************************)
\* the names a bins directory can hold
DirNames ==
    {VersionedName(BinaryBase, "1.1.0", "linux-x86_64", FALSE),
     VersionedName(BinaryBase, "1.0.0", "linux-x86_64", FALSE),
     VersionedName(BinaryBase, "1.0.0", "linux-x86_64", TRUE),
     VersionedName(BinaryBase, "1.0.0", "win-amd64", FALSE),
     VersionedName(<<"ffmpeg">>, "1.0.0", "linux-x86_64", FALSE),
     BinaryBase,
     <<"yt-dlp">>}

\* the names of freshly downloaded binaries
NewExecutables ==
    {VersionedName(BinaryBase, "1.1.0", "linux-x86_64", FALSE),
     VersionedName(BinaryBase, "1.1.0", "win-amd64", TRUE),
     <<"yt-dlp">>}

InitPruning ==
    /\ platform_name = "linux-x86_64"
    /\ configFile = [t \in Toolkits |-> "valid"]
    /\ config_cache = EmptyDict
    /\ tools = {}
    /\ cli_progress = TRUE
    /\ clock = 0
    /\ binsDir = TRUE
    /\ \E S \in SUBSET DirNames : binFiles = [n \in S |-> [size |-> 1, exec |-> TRUE]]
    /\ resFiles \in {EmptyDict, (MODEL_NAME :> EmptyDict)}
    /\ call = NoCall

\* the files os.remove may fail on in one call: none, or one of them
Unremovables == {{}} \cup {{n} : n \in DOMAIN binFiles}

\* self._delete_older_binary_versions(bins_path, new_executable)
PruneCall ==
    \E new_executable \in NewExecutables, unremovable \in Unremovables :
      \E m \in {DeleteOlderBinaryVersions(Machine, new_executable, unremovable)} :
          /\ Commit(Returned(m, <<>>))
          /\ call' = CallRecord("_delete_older_binary_versions", "chatterbox_onnx", "",
                                FALSE, Raised(m, "none", "", new_executable))
          /\ UNCHANGED <<platform_name, configFile, tools, cli_progress, clock>>

\* someone else puts a file into the bins directory
BinsInstall ==
    /\ \E n \in DirNames \ DOMAIN binFiles :
          binFiles' = (n :> [size |-> 1, exec |-> TRUE]) @@ binFiles
    /\ call' = NoCall
    /\ UNCHANGED <<platform_name, configFile, config_cache, tools, cli_progress, clock,
                   binsDir, resFiles>>

NextPruning == PruneCall \/ BinsInstall

SpecPruning == InitPruning /\ [][NextPruning]_vars

(***************************************************************************)
(* C11                                                                     *)
(***************************************************************************)
\* what the names mean: base name, version and platform of the versioned
\* ones, written out name by name
Versioned ==
    (VersionedName(BinaryBase, "1.1.0", "linux-x86_64", FALSE)
        :> [base |-> "chatterbox_onnx", version |-> "1.1.0", platform |-> "linux-x86_64"])
    @@ (VersionedName(BinaryBase, "1.0.0", "linux-x86_64", FALSE)
        :> [base |-> "chatterbox_onnx", version |-> "1.0.0", platform |-> "linux-x86_64"])
    @@ (VersionedName(BinaryBase, "1.0.0", "linux-x86_64", TRUE)
        :> [base |-> "chatterbox_onnx", version |-> "1.0.0", platform |-> "linux-x86_64"])
    @@ (VersionedName(BinaryBase, "1.0.0", "win-amd64", FALSE)
        :> [base |-> "chatterbox_onnx", version |-> "1.0.0", platform |-> "win-amd64"])
    @@ (VersionedName(BinaryBase, "1.1.0", "win-amd64", TRUE)
        :> [base |-> "chatterbox_onnx", version |-> "1.1.0", platform |-> "win-amd64"])
    @@ (VersionedName(<<"ffmpeg">>, "1.0.0", "linux-x86_64", FALSE)
        :> [base |-> "ffmpeg", version |-> "1.0.0", platform |-> "linux-x86_64"])

\* the files of the directory that are other versions of the binary new
OtherVersions(new) ==
    IF new \notin DOMAIN Versioned THEN {}
    ELSE {n \in DOMAIN binFiles \cap DOMAIN Versioned :
            /\ Versioned[n].base = Versioned[new].base
            /\ Versioned[n].platform = Versioned[new].platform
            /\ Versioned[n].version # Versioned[new].version}

\* the files the step has deleted
Deleted == DOMAIN binFiles \ DOMAIN binFiles'

IsPruneCall == IsCall("_delete_older_binary_versions")

RemoveFailed(ops) == \E i \in OpsOf(ops, {"remove"}) : ops[i].res = "error"

\* C11 as stated: pruning for a new file N deletes exactly the other files
\* with N's base name and platform and a different version, nothing when N
\* does not match the pattern, and raises nothing.
C11_PruningDeletesExactlyOtherVersions ==
    [][IsPruneCall
          => /\ Deleted = OtherVersions(call'.file)
             /\ DOMAIN binFiles' \subseteq DOMAIN binFiles
             /\ call'.exc = "none"]_vars

\* C11, amended: pruning for a new file N deletes only other files with N's
\* base name and platform and a different version, all of them unless an
\* os.remove fails (then it stops at that file); it never deletes N, files of
\* another base name or platform, or files that do not match the pattern; it
\* deletes nothing when N does not match the pattern; it creates nothing and
\* raises nothing.
C11_PruningDeletesOnlyOtherVersions ==
    [][IsPruneCall
          => /\ Deleted \subseteq OtherVersions(call'.file)
             /\ ~RemoveFailed(call'.ops) => Deleted = OtherVersions(call'.file)
             /\ RemoveFailed(call'.ops) => Deleted # OtherVersions(call'.file)
             /\ call'.file \notin Deleted
             /\ call'.file \notin DOMAIN Versioned => Deleted = {}
             /\ binFiles' = Restrict(binFiles, DOMAIN binFiles \ Deleted)
             /\ UNCHANGED <<binsDir, resFiles>>
             /\ call'.exc = "none"]_vars

\* C11, the case: a pruning for the Linux binary has deleted both files of
\* its older version and left the other files of the directory
C11_OlderVersionsPruned ==
    /\ call.op = "_delete_older_binary_versions"
    /\ call.file = VersionedName(BinaryBase, "1.1.0", "linux-x86_64", FALSE)
    /\ Cardinality(OpsOf(call.ops, {"remove"})) = 2
    /\ ~RemoveFailed(call.ops)
    /\ DOMAIN binFiles = DirNames \ {VersionedName(BinaryBase, "1.0.0", "linux-x86_64", FALSE),
                                     VersionedName(BinaryBase, "1.0.0", "linux-x86_64", TRUE)}

(***************************************************************************)
(* C12                                                                     *)
(***************************************************************************)
\* the cleanup steps of a call that failed: an os.remove that raised, an
\* xattr that exited non-zero or could not be run
CleanupFailures(ops) ==
    {i \in OpsOf(ops, {"remove", "xattr"}) : ops[i].res \in {"error", "warning", "exception"}}

\* the warning event that belongs to a failed cleanup step
WarningOf(o) ==
    CASE o.op = "remove" -> "cleanup_warning"
      [] o.res = "warning" -> "quarantine_warning"
      [] OTHER -> "quarantine_exception"

ChmodFailed(ops) == \E i \in OpsOf(ops, {"chmod"}) : ops[i].res = "error"

\* C12: a get_binary_path call in which deleting an old version or removing
\* the quarantine attribute failed, and nothing but cleanup failed, returns
\* the path of the binary it has just downloaded, has reported the warning
\* event of each failed cleanup step, and has reported no download_failed.
C12_CleanupFailureDoesNotAbort ==
    [][(/\ IsCall("get_binary_path")
        /\ CleanupFailures(call'.ops) # {}
        /\ ~ChmodFailed(call'.ops))
          => /\ call'.exc = "none"
             /\ call'.val = BinPath(ExpectedBinary)
             /\ TransferredFiles(call'.ops) = <<ExpectedBinary>>
             /\ ExpectedBinary \in DOMAIN binFiles'
             /\ \A i \in CleanupFailures(call'.ops) :
                   WarningOf(call'.ops[i]) \in EventKeys(call'.events)
             /\ "download_failed" \notin EventKeys(call'.events)]_vars

\* C12, the case: on macOS a call has downloaded the binary, failed to
\* delete the old version, failed to run xattr, and returned the path
C12_ReturnedAfterFailedCleanups ==
    /\ call.op = "get_binary_path"
    /\ \E i \in OpsOf(call.ops, {"remove"}) : call.ops[i].res = "error"
    /\ \E i \in OpsOf(call.ops, {"xattr"}) : call.ops[i].res = "exception"
    /\ {"cleanup_warning", "quarantine_exception"} \subseteq EventKeys(call.events)
    /\ call.exc = "none"
    /\ call.val = BinPath(ExpectedBinary)

(***************************************************************************)
(* C13                                                                     *)
(***************************************************************************)
\* C13 as stated: a get_binary_path call in which os.chmod failed, after a
\* fresh download or on the binary already present, still returns the path
\* of the binary, raises nothing and reports no download_failed.
C13_PermissionFailureIsNotFatal ==
    [][(IsCall("get_binary_path") /\ ChmodFailed(call'.ops))
          => /\ call'.exc = "none"
             /\ call'.val = BinPath(ExpectedBinary)
             /\ "download_failed" \notin EventKeys(call'.events)]_vars

\* C13, the failing case: the binary was downloaded whole, os.chmod failed
\* right after, and the call reported download_failed and raised
C13_PermissionFailureReportedAsDownloadFailure ==
    /\ call.op = "get_binary_path"
    /\ TransferredFiles(call.ops) = <<ExpectedBinary>>
    /\ ExpectedBinary \in DOMAIN binFiles
    /\ binFiles[ExpectedBinary].size > 0
    /\ ChmodFailed(call.ops)
    /\ "download_failed" \in EventKeys(call.events)
    /\ call.exc = "DownloadFailed"
    /\ call.cause = "chmod"

(***************************************************************************)
(* Configuration loading on its own: ToolkitConfig.load for two toolkits   *)
(* and any tool identifier, while the files on disk change                 *)
(***************************************************************************)
LoadToolkits == Toolkits \cup {"video_streaming"}

LoadToolNames == {"chatterbox_onnx", "ffmpeg", "piper"}

FileStates == {"valid", "missing", "corrupt"}

InitConfig ==
    /\ platform_name = "linux-x86_64"
    /\ configFile \in [LoadToolkits -> FileStates]
    /\ config_cache = EmptyDict
    /\ tools = {}
    /\ cli_progress = TRUE
    /\ clock = 0
    /\ binsDir = FALSE
    /\ binFiles = EmptyDict
    /\ resFiles = EmptyDict
    /\ call = NoCall

\* ToolkitConfig.load(toolkit_name, tool_name)
LoadCall ==
    \E toolkit_name \in LoadToolkits, tool_name \in LoadToolNames :
      \E r \in {Load(Machine, toolkit_name, tool_name, configFile[toolkit_name])} :
          /\ Commit(r)
          /\ call' = CallRecord("load", toolkit_name, tool_name, FALSE, r)
          /\ UNCHANGED <<platform_name, configFile, tools, cli_progress, clock>>

\* someone else writes, breaks or deletes a toolkit.json
ConfigMutation ==
    /\ \E toolkit_name \in LoadToolkits :
          \E file \in FileStates \ {configFile[toolkit_name]} :
              configFile' = [configFile EXCEPT ![toolkit_name] = file]
    /\ call' = NoCall
    /\ UNCHANGED <<platform_name, config_cache, tools, cli_progress, clock, binsDir,
                   binFiles, resFiles>>

NextConfig == LoadCall \/ ConfigMutation

SpecConfig == InitConfig /\ [][NextConfig]_vars

(***************************************************************************)
(* C14                                                                     *)
(***************************************************************************)
\* the tools each toolkit document declares
DeclaredTools ==
    [t \in LoadToolkits |-> IF t = "music_audio" THEN {"chatterbox_onnx"} ELSE {"ffmpeg"}]

Opens(ops) == OpsOf(ops, {"open"})

\* C14: once a toolkit's document is in memory, every load for that toolkit,
\* whatever the tool identifier and whatever has become of the file, opens no
\* file and answers from the document (the tool's entry, or ToolNotFound);
\* a load opens the file at most once, only for a toolkit not in memory, and
\* a document read successfully is in memory from then on; no step replaces
\* or removes a document held in memory.
C14_CachedToolkitIsNeverReadAgain ==
    [][/\ \A t \in DOMAIN config_cache :
             t \in DOMAIN config_cache' /\ config_cache'[t] = config_cache[t]
       /\ (IsCall("load") /\ call'.self \in DOMAIN config_cache)
             => /\ Opens(call'.ops) = {}
                /\ config_cache' = config_cache
                /\ IF call'.arg \in DeclaredTools[call'.self]
                   THEN /\ call'.exc = "none"
                        /\ call'.val = config_cache[call'.self].tools[call'.arg]
                   ELSE call'.exc = "ToolNotFound"
       /\ IsCall("load")
             => /\ Cardinality(Opens(call'.ops)) <= 1
                /\ \A i \in Opens(call'.ops) :
                      /\ call'.self \notin DOMAIN config_cache
                      /\ call'.ops[i].res = "valid" => call'.self \in DOMAIN config_cache'
      ]_vars

\* C14, the case: with both documents in memory and the music_audio file
\* gone, a load for music_audio following a load that failed with
\* ToolNotFound has succeeded without opening anything
C14_LoadAnsweredFromMemory ==
    /\ call.op = "load"
    /\ call.self = "music_audio"
    /\ call.arg = "chatterbox_onnx"
    /\ configFile["music_audio"] = "missing"
    /\ DOMAIN config_cache = LoadToolkits
    /\ call.prior.op = "load"
    /\ call.prior.exc = "ToolNotFound"
    /\ Opens(call.ops) = {}
    /\ call.exc = "none"

(***************************************************************************)
(* Platform resolution on its own: get_platform_name on every host         *)
(***************************************************************************)
\* the host of the process: what platform.system(), platform.machine() and
\* platform.processor() return
HostOf(c) == [system |-> c.file[1], machine |-> c.file[2], processor |-> c.file[3]]

InitPlatform ==
    /\ platform_name = "unknown"
    /\ configFile = [t \in Toolkits |-> "valid"]
    /\ config_cache = EmptyDict
    /\ tools = {}
    /\ cli_progress = TRUE
    /\ clock = 0
    /\ binsDir = FALSE
    /\ binFiles = EmptyDict
    /\ resFiles = EmptyDict
    /\ \E sys \in Systems, machine \in Machines, processor \in Processors :
          call = [NoCall EXCEPT !.file = <<sys, machine, processor>>]

\* get_platform_name()
GetPlatformNameCall ==
    /\ platform_name' = GetPlatformName(HostOf(call).system, HostOf(call).machine,
                                        HostOf(call).processor)
    /\ call' = CallRecord("get_platform_name", "", "", FALSE,
                          Raised(Machine, "none", "", call.file))
    /\ UNCHANGED <<configFile, config_cache, tools, cli_progress, clock, binsDir, binFiles,
                   resFiles>>

NextPlatform == GetPlatformNameCall

SpecPlatform == InitPlatform /\ [][NextPlatform]_vars

(***************************************************************************)
(* C15                                                                     *)
(***************************************************************************)
\* the other spelling of an architecture name
Alias(machine) ==
    CASE machine = "x86_64" -> "AMD64"
      [] machine = "AMD64" -> "x86_64"
      [] machine = "aarch64" -> "arm64"
      [] machine = "arm64" -> "aarch64"
      [] OTHER -> machine

Resolved == call.op = "get_platform_name"

\* C15: on every host get_platform_name returns one of the six tags; the
\* two spellings of an architecture resolve to the same tag on Linux and
\* macOS; an architecture that is neither resolves to linux-x86_64 on Linux;
\* Windows resolves to win-amd64 whatever the architecture; an OS other than
\* Linux, Darwin and Windows resolves to unknown.
C15_PlatformNameIsOneOfSixTags ==
    Resolved =>
        /\ platform_name \in {"linux-x86_64", "linux-aarch64", "macosx-x86_64",
                              "macosx-arm64", "win-amd64", "unknown"}
        /\ HostOf(call).system \in {"Linux", "Darwin"}
              => platform_name = GetPlatformName(HostOf(call).system,
                                                 Alias(HostOf(call).machine),
                                                 HostOf(call).processor)
        /\ HostOf(call).system = "Linux"
              => platform_name \in {"linux-x86_64", "linux-aarch64"}
        /\ HostOf(call).system = "Darwin"
              => platform_name \in {"macosx-x86_64", "macosx-arm64"}
        /\ (/\ HostOf(call).system = "Linux"
            /\ HostOf(call).machine \notin {"x86_64", "AMD64", "aarch64", "arm64"})
              => platform_name = "linux-x86_64"
        /\ HostOf(call).system = "Windows" => platform_name = "win-amd64"
        /\ HostOf(call).system \notin {"Linux", "Darwin", "Windows"}
              => platform_name = "unknown"

\* C15, the case: a Windows host with an ARM processor has been resolved
C15_WindowsOnArmResolved ==
    /\ Resolved
    /\ HostOf(call).system = "Windows"
    /\ HostOf(call).machine = "arm64"
    /\ platform_name = "win-amd64"

(***************************************************************************)
(* sdk/base_tool.py: command execution                                     *)
(***************************************************************************)
MaxClock == 2

MaxReads == 2

\* BaseTool.report(key, data, tool_group_id) with a tool_group_id
ReportGrouped(m, key, file, tool_group_id) ==
    [m EXCEPT !.events = Append(@, [key |-> key, file |-> file,
                                    toolGroupId |-> tool_group_id])]

\* f"{self.toolkit}_{self.tool_name}_{int(time.time() * 1000)}"
ToolGroupId(self, now) == <<ToolkitOf(self), "_", self, "_", now>>

\* the options dictionaries of the callers
ExecOptions ==
    {EmptyDict, [timeout |-> 1], [sync |-> TRUE, timeout |-> 30], [sync |-> FALSE]}

\* "exec_options.get('sync', True) if exec_options else True"
IsSync(exec_options) == DictGet(exec_options, "sync", TRUE)

ExitCodes == {0, 1}

\* what subprocess.run does: the command exits, the timeout expires (only
\* when one was given), or the shell cannot be launched
RunOutcomes(exec_options) ==
    [kind : {"exit"}, code : ExitCodes, stdout : {"", "out"}, stderr : {"", "err"}]
    \cup {[kind |-> "error", code |-> 0, stdout |-> "", stderr |-> ""]}
    \cup (IF "timeout" \in DOMAIN exec_options
          THEN {[kind |-> "timeout", code |-> 0, stdout |-> "", stderr |-> ""]}
          ELSE {})

\* a synchronous execution that does not look at the exit code
SyncExitIgnoringExitCode(m, out, tool_group_id) ==
    Returned(ReportGrouped(m, "command_completed", <<>>, tool_group_id), out.stdout)

\* the try block of _execute_sync_command after subprocess.run returned
SyncExit(m, out, tool_group_id) ==
    IF out.code = 0
    THEN Returned(ReportGrouped(m, "command_completed", <<>>, tool_group_id), out.stdout)
    ELSE RaisedWith(ReportGrouped(ReportGrouped(m, "command_failed", <<>>, tool_group_id),
                                  "command_error", <<>>, tool_group_id),
                    "CommandFailed", [exit_code |-> out.code, stderr |-> out.stderr])

\* BaseTool._execute_sync_command(binary_path, args, command_string,
\* exec_options, tool_group_id); out is what subprocess.run does
ExecuteSyncCommand(m, binary_path, exec_options, tool_group_id, out) ==
    Then(FsOp(m, "run", binary_path, out.kind), LAMBDA m1 :
    CASE out.kind = "timeout" ->
           RaisedWith(ReportGrouped(m1, "command_timeout", <<>>, tool_group_id),
                      "CommandTimeout", [timeout |-> exec_options.timeout])
      [] out.kind = "error" ->
           RaisedWith(ReportGrouped(m1, "command_error", <<>>, tool_group_id),
                      "CommandError", [error |-> "OSError"])
      [] OTHER -> SyncExit(m1, out, tool_group_id))

\* one pass of the reading loop: the lines readline returned ("" for none),
\* a line of stdout, a line of stderr, or one of each
Reads ==
    [stdout : {"", "out"}, stderr : {"", "err"}] \ {[stdout |-> "", stderr |-> ""]}

RECURSIVE ReadSeqs(_)
ReadSeqs(n) ==
    IF n = 0 THEN {<<>>}
    ELSE {<<>>} \cup {<<r>> \o rest : r \in Reads, rest \in ReadSeqs(n - 1)}

\* what subprocess.Popen and the process do: the process cannot be
\* launched, or it runs through some passes of the reading loop and exits
PopenOutcomes ==
    {[kind |-> "error", code |-> 0, reads |-> <<>>]}
    \cup [kind : {"exit"}, code : ExitCodes, reads : ReadSeqs(MaxReads) \ {<<>>}]

Callback(m, name, arg) == FsOp(m, name, Path("", "", <<>>), arg)

\* "if stdout_line: ..."
OnStdout(st, line, on_progress, on_output) ==
    IF line = "" THEN st
    ELSE [m |-> Then(IF on_output THEN Callback(st.m, "on_output", "stdout") ELSE st.m,
                     LAMBDA m1 :
                     IF on_progress THEN Callback(m1, "on_progress", "running") ELSE m1),
          buffer |-> Append(st.buffer, line)]

\* "if stderr_line: ..."
OnStderr(st, line, on_output) ==
    IF line = "" THEN st
    ELSE [m |-> IF on_output THEN Callback(st.m, "on_output", "stderr") ELSE st.m,
          buffer |-> Append(st.buffer, line)]

\* "if process.poll() is not None: break"
Poll(st, exited) ==
    [st EXCEPT !.m = FsOp(@, "poll", Path("", "", <<>>),
                          IF exited THEN "exited" ELSE "running")]

\* the "while True" loop of _execute_async_command
RECURSIVE ReadLoop(_, _, _, _)
ReadLoop(st, reads, on_progress, on_output) ==
    IF reads = <<>> THEN st
    ELSE ReadLoop(Poll(OnStderr(OnStdout(st, Head(reads).stdout, on_progress, on_output),
                                Head(reads).stderr, on_output),
                       Len(reads) = 1),
                  Tail(reads), on_progress, on_output)

\* a streaming execution that reports completion before it looks at the
\* exit code
AsyncExitAlwaysCompleting(st, code, tool_group_id, on_progress) ==
    Then(IF on_progress THEN Callback(st.m, "on_progress", "completed") ELSE st.m,
         LAMBDA m1 :
    IF code = 0
    THEN Returned(ReportGrouped(m1, "command_completed", <<>>, tool_group_id), st.buffer)
    ELSE RaisedWith(ReportGrouped(ReportGrouped(m1, "command_failed", <<>>,
                                                tool_group_id),
                                  "command_error", <<>>, tool_group_id),
                    "CommandFailed", [exit_code |-> code, output |-> st.buffer]))

\* _execute_async_command after the loop
AsyncExit(st, code, tool_group_id, on_progress) ==
    IF code = 0
    THEN Then(ReportGrouped(st.m, "command_completed", <<>>, tool_group_id), LAMBDA m1 :
         Returned(IF on_progress THEN Callback(m1, "on_progress", "completed") ELSE m1,
                  st.buffer))
    ELSE RaisedWith(ReportGrouped(ReportGrouped(st.m, "command_failed", <<>>,
                                                tool_group_id),
                                  "command_error", <<>>, tool_group_id),
                    "CommandFailed", [exit_code |-> code, output |-> st.buffer])

\* BaseTool._execute_async_command(binary_path, args, command_string,
\* exec_options, tool_group_id, on_progress, on_output)
ExecuteAsyncCommand(m, binary_path, tool_group_id, on_progress, on_output, out) ==
    Then(FsOp(m, "popen", binary_path, out.kind), LAMBDA m1 :
    IF out.kind = "error"
    THEN RaisedWith(ReportGrouped(m1, "command_error", <<>>, tool_group_id),
                    "CommandError", [error |-> "OSError"])
    ELSE AsyncExit(ReadLoop([m |-> m1, buffer |-> <<>>], out.reads,
                            on_progress, on_output),
                   out.code, tool_group_id, on_progress))

\* execute_command from "tool_group_id = ..." on
RunCommand(m, binary_path, exec_options, tool_group_id, on_progress, on_output, out) ==
    Then(ReportGrouped(m, "executing_command", <<>>, tool_group_id), LAMBDA m1 :
    IF IsSync(exec_options)
    THEN ExecuteSyncCommand(m1, binary_path, exec_options, tool_group_id, out)
    ELSE ExecuteAsyncCommand(m1, binary_path, tool_group_id, on_progress, on_output, out))

\* BaseTool.execute_command(options) of the tool self at the time now;
\* binary_path is the outcome of its call of get_binary_path
ExecuteCommand(binary_path, self, o, now) ==
    IF binary_path.exc # "none" THEN binary_path
    ELSE RunCommand(binary_path.m, binary_path.val, o.options, ToolGroupId(self, now),
                    o.on_progress, o.on_output, o.out)

\* the ExecuteCommandOptions of a synchronous call, with what the command
\* will do
SyncOptions ==
    UNION {[binary_name : {"chatterbox_onnx"}, skip_binary_download : BOOLEAN,
            options : {x}, on_progress : {FALSE}, on_output : {FALSE},
            out : RunOutcomes(x)] : x \in {y \in ExecOptions : IsSync(y)}}

\* the ExecuteCommandOptions of a streaming call: no callback, on_progress,
\* or on_progress and on_output
StreamingOptions ==
    {o \in [binary_name : {"chatterbox_onnx"}, skip_binary_download : BOOLEAN,
            options : {y \in ExecOptions : ~IsSync(y)}, on_progress : BOOLEAN,
            on_output : BOOLEAN, out : PopenOutcomes] :
        o.on_output => o.on_progress}

CommandOptions == SyncOptions \cup StreamingOptions

\* the transfers a command's download can make: a good one, an interrupted one
CommandEnvs(skip) ==
    IF skip \/ TargetName \in DOMAIN binFiles THEN {BinaryEnvOk}
    ELSE {BinaryEnvOk, [BinaryEnvOk EXCEPT !.dl = [failed |-> TRUE, after |-> "absent"]]}

InitCommand ==
    /\ platform_name = GetPlatformName("Linux", "x86_64", "")
    /\ configFile = [t \in Toolkits |-> "valid"]
    /\ config_cache = EmptyDict
    /\ tools = {}
    /\ cli_progress = TRUE
    /\ clock = 0
    /\ binsDir = FALSE
    /\ binFiles = EmptyDict
    /\ resFiles = EmptyDict
    /\ call = NoCall

\* tool.execute_command(options) with options from O; the call may be over
\* within the millisecond
ExecuteCommandWith(O) ==
    \E self \in tools, binary_name \in BinaryNames, skip \in BOOLEAN :
      \E env \in CommandEnvs(skip) :
        \E binary_path \in {GetBinaryPath(Machine, self, binary_name, skip, platform_name,
                                           configFile[ToolkitOf(self)], env,
                                           cli_progress)} :
          \E o \in {x \in O : /\ x.binary_name = binary_name
                               /\ x.skip_binary_download = skip} :
            \E r \in {ExecuteCommand(binary_path, self, o, clock)} :
                /\ Commit(r)
                /\ call' = [CallRecord("execute_command", self, binary_name, skip, r)
                              EXCEPT !.prior = NoPrior, !.file = <<o>>]
                /\ UNCHANGED <<platform_name, configFile, tools, cli_progress, clock>>

ExecuteCommandCall == ExecuteCommandWith(CommandOptions)

\* the calls with sync = True
SyncCommandCall == ExecuteCommandWith(SyncOptions)

\* the calls with sync = False
StreamingCommandCall == ExecuteCommandWith(StreamingOptions)

\* time passes
Tick ==
    /\ clock < MaxClock
    /\ clock' = clock + 1
    /\ UNCHANGED <<platform_name, configFile, config_cache, tools, cli_progress,
                   binsDir, binFiles, resFiles, call>>

NextCommand == Construct \/ SyncCommandCall \/ Tick

SpecCommand == InitCommand /\ [][NextCommand]_vars

NextStreaming == Construct \/ StreamingCommandCall

SpecStreaming == InitCommand /\ [][NextStreaming]_vars

(***************************************************************************)
(* C16                                                                     *)
(***************************************************************************)
\* the options of the last execute_command call
Options == call.file[1]

\* the last call was an execute_command that got as far as running the
\* command with subprocess.run
RanSync ==
    /\ call.op = "execute_command"
    /\ OpsOf(call.ops, {"run"}) # {}

\* C16: a synchronous execution returns the captured stdout when the command
\* exits with 0, raises CommandFailed with the exit code and the stderr when
\* it exits with another code, raises CommandTimeout with the configured
\* timeout when the timeout expires, raises CommandError when the command
\* cannot be launched, and raises no CommandTimeout when no timeout is given.
C16_SyncOutcomeIsClassified ==
    RanSync =>
        /\ (Options.out.kind = "exit" /\ Options.out.code = 0)
              => call.exc = "none" /\ call.val = Options.out.stdout
        /\ (Options.out.kind = "exit" /\ Options.out.code # 0)
              => /\ call.exc = "CommandFailed"
                 /\ call.msg.exit_code = Options.out.code
                 /\ call.msg.stderr = Options.out.stderr
        /\ Options.out.kind = "timeout"
              => /\ call.exc = "CommandTimeout"
                 /\ call.msg.timeout = Options.options.timeout
        /\ Options.out.kind = "error" => call.exc = "CommandError"
        /\ "timeout" \notin DOMAIN Options.options => call.exc # "CommandTimeout"
        /\ call.exc \in {"none", "CommandFailed", "CommandTimeout", "CommandError"}

\* C16, the case: a command run with a timeout of 1 second has timed out
C16_TimedOutAfterOneSecond ==
    /\ RanSync
    /\ Options.options = [timeout |-> 1]
    /\ call.exc = "CommandTimeout"
    /\ call.msg = [timeout |-> 1]

(***************************************************************************)
(* C17, C18                                                                *)
(***************************************************************************)
\* the events reported with a toolGroupId
Grouped(events) == {i \in 1..Len(events) : "toolGroupId" \in DOMAIN events[i]}

GroupIds(events) == {events[i].toolGroupId : i \in Grouped(events)}

\* C17 as stated: every execute_command call, whatever its outcome, has
\* reported at least one event that carries the toolGroupId of the call.
C17_EveryCallReportsUnderItsId ==
    [][IsCall("execute_command")
          => ToolGroupId(call'.self, clock) \in GroupIds(call'.events)]_vars

\* C17, the failing case: the download of the binary failed, the call has
\* reported events and raised, and none of its events carries a toolGroupId
C17_FailedDownloadReportedWithoutId ==
    /\ call.op = "execute_command"
    /\ ~call.skip
    /\ call.exc = "DownloadFailed"
    /\ "download_failed" \in EventKeys(call.events)
    /\ Grouped(call.events) = {}

\* C18 as stated: two execute_command calls made one after the other never
\* report under the same toolGroupId.
C18_ConsecutiveCallsHaveDifferentIds ==
    [][(IsCall("execute_command") /\ call.op = "execute_command")
          => GroupIds(call'.events) \cap GroupIds(call.events) = {}]_vars

\* C18, the ground of the failing case: a call has reported all its grouped
\* events under the one id made of toolkit, tool name and the millisecond
C18_IdIsTheMillisecond ==
    /\ call.op = "execute_command"
    /\ call.exc = "none"
    /\ GroupIds(call.events) = {<<"music_audio", "_", "chatterbox_onnx", "_", clock>>}
    /\ clock = 1

(***************************************************************************)
(* C19                                                                     *)
(***************************************************************************)
\* the last call was an execute_command that launched the process with
\* subprocess.Popen
Streamed ==
    /\ call.op = "execute_command"
    /\ \E i \in OpsOf(call.ops, {"popen"}) : call.ops[i].res = "exit"

\* the lines of the passes, in the order they were read
RECURSIVE LinesOf(_)
LinesOf(reads) ==
    IF reads = <<>> THEN <<>>
    ELSE SelectSeq(<<Head(reads).stdout, Head(reads).stderr>>, LAMBDA l : l # "")
         \o LinesOf(Tail(reads))

StdoutLines(reads) == {i \in 1..Len(reads) : reads[i].stdout # ""}

\* the calls of on_progress with the given status
Progress(ops, status) == {i \in OpsOf(ops, {"on_progress"}) : ops[i].res = status}

\* the polls that found the process exited
Exits(ops) == {i \in OpsOf(ops, {"poll"}) : ops[i].res = "exited"}

\* C19: a streaming execution that has launched the process ends after the
\* one poll that found it exited, which follows every read; on exit code 0
\* it returns the lines it has read and, given on_progress, has called it
\* once with 'completed', after the exit and after every 'running' call; on
\* another exit code it raises CommandFailed with the exit code and the
\* lines read and has made no 'completed' call. 'running' calls are made
\* once per stdout line and for nothing else.
C19_StreamingEndsAfterExit ==
    Streamed =>
        /\ Cardinality(Exits(call.ops)) = 1
        /\ \A e \in Exits(call.ops) :
              \A i \in OpsOf(call.ops, {"poll", "on_output"}) \cup Progress(call.ops, "running") :
                 i <= e
        /\ Cardinality(Progress(call.ops, "running"))
              = IF Options.on_progress THEN Cardinality(StdoutLines(Options.out.reads))
                ELSE 0
        /\ Options.out.code = 0
              => /\ call.exc = "none"
                 /\ call.val = LinesOf(Options.out.reads)
                 /\ Cardinality(Progress(call.ops, "completed"))
                       = IF Options.on_progress THEN 1 ELSE 0
                 /\ \A c \in Progress(call.ops, "completed") :
                       /\ c = Len(call.ops)
                       /\ \A i \in Exits(call.ops) \cup Progress(call.ops, "running") : i < c
        /\ Options.out.code # 0
              => /\ call.exc = "CommandFailed"
                 /\ call.msg = [exit_code |-> Options.out.code,
                                output |-> LinesOf(Options.out.reads)]
                 /\ Progress(call.ops, "completed") = {}

\* C19, the case: a process that wrote to stdout and stderr in two passes
\* has exited with 0 and the call, given on_progress, has returned
C19_StreamedToCompletion ==
    /\ Streamed
    /\ Options.on_progress
    /\ Options.out.code = 0
    /\ Options.out.reads = <<[stdout |-> "out", stderr |-> "err"],
                             [stdout |-> "", stderr |-> "err"]>>
    /\ call.exc = "none"
    /\ call.val = <<"out", "err", "err">>
    /\ Cardinality(Progress(call.ops, "running")) = 1
    /\ Progress(call.ops, "completed") = {Len(call.ops)}

(***************************************************************************)
(* sdk/base_tool.py: the polling loop of _handle_download_progress         *)
(***************************************************************************)
LOG_INTERVAL_MS == 2000

PERCENTAGE_THRESHOLD == 5

\* int(time.time() * 1000) when the download starts
Epoch == 1000000

\* the downloads watched: one advances 1% every 50 ms and completes, one
\* advances 1% every second and fails after 5 seconds
Downloads ==
    {[step |-> 50, failsAfter |-> 0], [step |-> 1000, failsAfter |-> 5000]}

\* milliseconds between the start of the download and the first poll
Phases == {0, 25, 50, 99}

\* milliseconds from one poll to the next: time.sleep(0.1) and the loop body
PollPeriods == {100, 101, 130}

\* milliseconds between the read of dl.progress in the loop condition and
\* the read in the loop body
ReadGaps == {0, 1}

\* dl.progress, t milliseconds after the start
PercentAt(dl, t) == IF t \div dl.step >= 100 THEN 100 ELSE t \div dl.step

\* dl.Failed, t milliseconds after the start
FailedAt(dl, t) == dl.failsAfter > 0 /\ t >= dl.failsAfter

\* a reporter that logs at every poll
ShouldLogAlways(current_progress, current_time, last_logged_percentage, last_log_time) ==
    TRUE

\* should_log
ShouldLog(current_progress, current_time, last_logged_percentage, last_log_time) ==
    \/ current_progress >= last_logged_percentage + PERCENTAGE_THRESHOLD
    \/ current_time - last_log_time >= LOG_INTERVAL_MS
    \/ current_progress = 100

\* the body of the loop: st holds the time t of the poll since the start,
\* last_logged_percentage, last_log_time and the progress lines logged so far
LogProgress(st, current_progress, current_time, period) ==
    IF ShouldLog(current_progress, current_time, st.last_logged_percentage,
                 st.last_log_time)
    THEN [t |-> st.t + period,
          last_logged_percentage |-> current_progress,
          last_log_time |-> current_time,
          lines |-> Append(st.lines, [percent |-> current_progress,
                                      time |-> current_time])]
    ELSE [st EXCEPT !.t = @ + period]

\* a loop condition that does not look at the failure flag
DownloadingUntilComplete(dl, t) == PercentAt(dl, t) < 100

\* "dl.progress < 100 and not dl.Failed", t milliseconds after the start
Downloading(dl, t) == PercentAt(dl, t) < 100 /\ ~FailedAt(dl, t)

\* the download and the timing of the polls, as drawn at the start
Watched(c) == [dl |-> c.file[1], phase |-> c.file[2], period |-> c.file[3],
               gap |-> c.file[4]]

InitProgress ==
    /\ platform_name = "linux-x86_64"
    /\ configFile = [t \in Toolkits |-> "valid"]
    /\ config_cache = EmptyDict
    /\ tools = {}
    /\ cli_progress = TRUE
    /\ clock = 0
    /\ binsDir = FALSE
    /\ binFiles = EmptyDict
    /\ resFiles = EmptyDict
    /\ \E dl \in Downloads, phase \in Phases, period \in PollPeriods, gap \in ReadGaps :
          call = [NoCall EXCEPT !.file = <<dl, phase, period, gap>>]

UnchangedByProgress ==
    UNCHANGED <<platform_name, configFile, config_cache, tools, cli_progress, clock,
                binsDir, binFiles, resFiles>>

\* self._handle_download_progress(dl, file_name) is entered
EnterProgress ==
    /\ call.op = "none"
    /\ call' = [call EXCEPT !.op = "polling",
                            !.val = [t |-> Watched(call).phase,
                                     last_logged_percentage |-> -1,
                                     last_log_time |-> 0,
                                     lines |-> <<>>]]
    /\ UnchangedByProgress

\* one pass of the while loop
PollProgress ==
    /\ call.op = "polling"
    /\ Downloading(Watched(call).dl, call.val.t)
    /\ call' = [call EXCEPT !.val =
                   LogProgress(@, PercentAt(Watched(call).dl, @.t + Watched(call).gap),
                               Epoch + @.t + Watched(call).gap, Watched(call).period)]
    /\ UnchangedByProgress

\* the loop is left: self.log(f"Download completed: {file_name}"), then
\* "if dl.Failed: raise Exception('Download failed')"
LeaveProgress ==
    /\ call.op = "polling"
    /\ ~Downloading(Watched(call).dl, call.val.t)
    /\ call' = [call EXCEPT !.op = "_handle_download_progress",
                            !.seq = 1 - @,
                            !.ops = Append(@, [op |-> "log", path |-> Path("", "", <<>>),
                                               res |-> "Download completed"]),
                            !.exc = IF FailedAt(Watched(call).dl, call.val.t)
                                    THEN "Exception" ELSE "none"]
    /\ UnchangedByProgress

NextProgress == EnterProgress \/ PollProgress \/ LeaveProgress

SpecProgress == InitProgress /\ [][NextProgress]_vars

(***************************************************************************)
(* C20                                                                     *)
(***************************************************************************)
Polled == call.op \in {"polling", "_handle_download_progress"}

\* the progress lines logged so far
Lines == call.val.lines

\* the line before the i-th progress line; before the first, the values
\* last_logged_percentage and last_log_time start with
LineBefore(lines, i) == IF i = 1 THEN [percent |-> -1, time |-> 0] ELSE lines[i - 1]

\* every progress line is at least 5 points above the line before, or at
\* least 2000 ms after it, or the 100% line
EmittedByRule(lines) ==
    \A i \in 1..Len(lines) :
        \/ lines[i].percent >= LineBefore(lines, i).percent + 5
        \/ lines[i].time - LineBefore(lines, i).time >= 2000
        \/ lines[i].percent = 100

\* the least distance in percent between two consecutive progress lines
\* whose later line is in Later
ApartBy(lines, n, Later) ==
    \A i \in 2..Len(lines) :
        lines[i].percent \in Later => lines[i].percent - lines[i - 1].percent >= n

\* C20 as stated: every progress line is emitted by the rule, and for the
\* download that advances 1% every 50 ms any two consecutive progress lines
\* are at least 5 points apart.
C20_LinesAreFivePointsApart ==
    Polled =>
        /\ EmittedByRule(Lines)
        /\ Watched(call).dl.step = 50 => ApartBy(Lines, 5, 0..100)

\* C20, amended: every progress line is emitted by the rule, so none falls
\* in the window the line before opens (fewer than 5 points and less than
\* 2000 ms after it) unless it is the 100% line; for the download that
\* advances 1% every 50 ms any two consecutive progress lines are at least 5
\* points apart unless the later one is the 100% line, which is at least 2
\* points after the line before; and the lines are in the order of time, at
\* most one per poll.
C20_LinesAreFivePointsApartBefore100 ==
    Polled =>
        /\ EmittedByRule(Lines)
        /\ Watched(call).dl.step = 50
              => /\ ApartBy(Lines, 5, 0..99)
                 /\ ApartBy(Lines, 2, {100})
        /\ \A i \in 2..Len(Lines) :
              Lines[i].time - Lines[i - 1].time >= Watched(call).period

\* C20, the case: the download that advances 1% every 50 ms has been polled
\* every 100 ms to its end and there are progress lines from 0% to over 90%
C20_FastDownloadWatched ==
    /\ call.op = "_handle_download_progress"
    /\ Watched(call).dl.step = 50
    /\ Watched(call).period = 100
    /\ Len(Lines) >= 15
    /\ Lines[1].percent = 0
    /\ Lines[Len(Lines)].percent > 90

(***************************************************************************)
(* C21                                                                     *)
(***************************************************************************)
\* the polling thread is scheduled: time.sleep(0.1) returns and the loop
\* goes on to its next check
SpecProgressFair == SpecProgress /\ WF_vars(NextProgress)

\* the download has reached 100% or set its failure flag by the time of the
\* reporter's check
TransferEnded ==
    \/ PercentAt(Watched(call).dl, call.val.t) = 100
    \/ FailedAt(Watched(call).dl, call.val.t)

Finished == call.op = "_handle_download_progress"

\* C21: at the first check that finds the download at 100% or failed the
\* reporter stops polling and finishes, logging no further progress line; it
\* finishes at no other check; it raises exactly when the failure flag is
\* set at that check; and every reporter eventually finishes.
C21_ReporterFinishes ==
    /\ [][(call.op = "polling" /\ TransferEnded)
             => /\ Finished'
                /\ call'.val = call.val
                /\ call'.exc = IF FailedAt(Watched(call).dl, call.val.t)
                               THEN "Exception" ELSE "none"]_vars
    /\ [][(call.op = "polling" /\ ~TransferEnded) => call'.op = "polling"]_vars
    /\ <>Finished

\* C21, the case: the reporter of the download that fails after 5 seconds
\* has finished by raising, at its first check after the failure
C21_FinishedByRaising ==
    /\ Finished
    /\ Watched(call).dl.failsAfter = 5000
    /\ call.val.t >= 5000
    /\ call.val.t < 5000 + Watched(call).period
    /\ call.exc = "Exception"

(***************************************************************************)
(* Shell escaping: _escape_shell_arg and the command line of               *)
(* execute_command, read back by the shell that subprocess.run(shell=True) *)
(* starts.  Strings are sequences of characters.                           *)
(***************************************************************************)
MaxArgLen == 3

ArgChars == {"a", ":", " ", "\\", "\"", "&"}

ArgStrings == UNION {[1..n -> ArgChars] : n \in 0..MaxArgLen}

\* the characters urlparse accepts in a scheme, among ArgChars
SchemeChars == {"a"}

\* url.lstrip(_WHATWG_C0_CONTROL_OR_SPACE) of urllib.parse.urlsplit
RECURSIVE LStrip(_)
LStrip(s) == IF s # <<>> /\ Head(s) = " " THEN LStrip(Tail(s)) ELSE s

\* url.find(':'), counted from 1; 0 when there is none
FirstColon(url) ==
    IF \E i \in 1..Len(url) : url[i] = ":"
    THEN CHOOSE i \in 1..Len(url) : url[i] = ":" /\ \A j \in 1..(i - 1) : url[j] # ":"
    ELSE 0

\* urlparse(arg).scheme: the text before the first colon when it is made of
\* scheme characters only
UrlScheme(arg) ==
    LET url == LStrip(arg)
    IN  IF FirstColon(url) > 1 /\ \A j \in 1..(FirstColon(url) - 1) : url[j] \in SchemeChars
        THEN SubSeq(url, 1, FirstColon(url) - 1)
        ELSE <<>>

\* the grave accent, which a string of this notation cannot hold
Backtick == "grave"

\* the character class of the re.sub at line 85; \s is the white space
PosixEscaped ==
    {"\"", " ", "\t", "\n", "\r", "'", "$", Backtick, "\\", "(", ")", "{", "}", "[", "]", "|",
     "&", ";", "<", ">", "*", "?", "!"}

\* re.sub(pattern, r'\\\1', arg): a backslash before each character of the class
RECURSIVE ReSub(_)
ReSub(arg) ==
    IF arg = <<>> THEN <<>>
    ELSE (IF Head(arg) \in PosixEscaped THEN <<"\\", Head(arg)>> ELSE <<Head(arg)>>)
             \o ReSub(Tail(arg))

\* arg.replace(chr(34), chr(92) + chr(34))
RECURSIVE ReplaceQuotes(_)
ReplaceQuotes(arg) ==
    IF arg = <<>> THEN <<>>
    ELSE (IF Head(arg) = "\"" THEN <<"\\", "\"">> ELSE <<Head(arg)>>)
             \o ReplaceQuotes(Tail(arg))

\* BaseTool._escape_shell_arg(arg)
EscapeShellArg(arg, windows) ==
    IF UrlScheme(arg) # <<>> THEN arg
    ELSE IF windows
         THEN IF \E i \in 1..Len(arg) : arg[i] \in {" ", "\"", "&", "|"}
              THEN <<"\"">> \o ReplaceQuotes(arg) \o <<"\"">>
              ELSE arg
         ELSE ReSub(arg)

\* " ".join(words)
RECURSIVE Join(_)
Join(words) ==
    IF words = <<>> THEN <<>>
    ELSE IF Len(words) = 1 THEN words[1]
    ELSE words[1] \o <<" ">> \o Join(Tail(words))

\* f'"{binary_path}" {" ".join([self._escape_shell_arg(arg) for arg in args])}'
CommandString(binary_path, args, windows) ==
    <<"\"">> \o binary_path \o <<"\"", " ">>
        \o Join([i \in 1..Len(args) |-> EscapeShellArg(args[i], windows)])

\* -- the shell reading a command line ------------------------------------
\* a reader's state: the commands and the words of the current command read
\* so far, the word being read, and whether a double quote is open
Reading == [cmds |-> <<>>, words |-> <<>>, word |-> <<>>, inWord |-> FALSE, quote |-> FALSE]

Add(st, c) == [st EXCEPT !.word = st.word \o <<c>>, !.inWord = TRUE]

EndWord(st) ==
    IF st.inWord
    THEN [st EXCEPT !.words = st.words \o <<st.word>>, !.word = <<>>, !.inWord = FALSE]
    ELSE st

EndCommand(st) ==
    Then(EndWord(st), LAMBDA e :
         IF e.words = <<>> THEN e
         ELSE [e EXCEPT !.cmds = e.cmds \o <<e.words>>, !.words = <<>>])

\* what the shell makes of a line: the commands it runs, each as its words;
\* ok is false when the line ends inside a quotation
Parsed(st) == [ok |-> ~st.quote, cmds |-> IF st.quote THEN <<>> ELSE EndCommand(st).cmds]

\* /bin/sh -c line: backslash quotes the next character, double quotes
\* quote up to the closing one (backslash quoting only " and \ inside),
\* blanks separate words, & ; | end a command
RECURSIVE ShRead(_, _, _)
ShRead(s, i, st) ==
    IF i > Len(s) THEN Parsed(st)
    ELSE IF st.quote
    THEN (IF s[i] = "\"" THEN ShRead(s, i + 1, [st EXCEPT !.quote = FALSE])
          ELSE IF s[i] = "\\" /\ i < Len(s) /\ s[i + 1] \in {"\"", "\\", "$", Backtick}
               THEN ShRead(s, i + 2, Add(st, s[i + 1]))
          ELSE ShRead(s, i + 1, Add(st, s[i])))
    ELSE (IF s[i] = "\\" /\ i < Len(s) THEN ShRead(s, i + 2, Add(st, s[i + 1]))
          ELSE IF s[i] = "\"" THEN ShRead(s, i + 1, [st EXCEPT !.quote = TRUE, !.inWord = TRUE])
          ELSE IF s[i] = " " THEN ShRead(s, i + 1, EndWord(st))
          ELSE IF s[i] \in {"&", ";", "|"} THEN ShRead(s, i + 1, EndCommand(st))
          ELSE ShRead(s, i + 1, Add(st, s[i])))

\* the number of backslashes of s from position i on
RECURSIVE Backslashes(_, _)
Backslashes(s, i) == IF i <= Len(s) /\ s[i] = "\\" THEN 1 + Backslashes(s, i + 1) ELSE 0

RECURSIVE AddBackslashes(_, _)
AddBackslashes(st, n) == IF n = 0 THEN st ELSE AddBackslashes(Add(st, "\\"), n - 1)

\* cmd.exe /c "line" and the argument rules of the C runtime of the program
\* started: cmd.exe toggles quotation at every double quote and ends a
\* command at & or | outside one; the runtime takes 2n backslashes before a
\* double quote as n backslashes and n*2+1 as n backslashes and a literal
\* double quote, and a doubled double quote inside a quotation as one
RECURSIVE CmdRead(_, _, _, _)
CmdRead(s, i, st, cmdQuote) ==
    IF i > Len(s) THEN Parsed(st)
    ELSE IF s[i] \in {"&", "|"} /\ ~cmdQuote
    THEN CmdRead(s, i + 1, [EndCommand(st) EXCEPT !.quote = FALSE], FALSE)
    ELSE IF s[i] = "\\"
    THEN Then(Backslashes(s, i), LAMBDA n :
         IF i + n <= Len(s) /\ s[i + n] = "\""
         THEN IF n % 2 = 1
              THEN CmdRead(s, i + n + 1, Add(AddBackslashes(st, n \div 2), "\""), ~cmdQuote)
              ELSE CmdRead(s, i + n, AddBackslashes(st, n \div 2), cmdQuote)
         ELSE CmdRead(s, i + n, AddBackslashes(st, n), cmdQuote))
    ELSE IF s[i] = "\""
    THEN (IF st.quote /\ i < Len(s) /\ s[i + 1] = "\""
          THEN CmdRead(s, i + 2, Add(st, "\""), cmdQuote)
          ELSE CmdRead(s, i + 1, [st EXCEPT !.quote = ~st.quote, !.inWord = TRUE], ~cmdQuote))
    ELSE IF s[i] = " " /\ ~st.quote THEN CmdRead(s, i + 1, EndWord(st), cmdQuote)
    ELSE CmdRead(s, i + 1, Add(st, s[i]), cmdQuote)

\* the platform shell reading line
ShellRead(line, windows) ==
    IF windows THEN CmdRead(line, 1, Reading, FALSE) ELSE ShRead(line, 1, Reading)

\* one command made of exactly these words
OneCommand(words) == [ok |-> TRUE, cmds |-> <<words>>]

\* -- the specification ---------------------------------------------------
\* the path get_binary_path returns with skip_binary_download: the name
ShellBinary == <<"s", "h">>

InitEscape ==
    /\ platform_name \in {"linux-x86_64", "win-amd64"}
    /\ configFile = [t \in Toolkits |-> "valid"]
    /\ config_cache = EmptyDict
    /\ tools = {}
    /\ cli_progress = TRUE
    /\ clock = 0
    /\ binsDir = FALSE
    /\ binFiles = EmptyDict
    /\ resFiles = EmptyDict
    /\ \E arg \in ArgStrings : call = [NoCall EXCEPT !.file = <<arg>>]

UnchangedByEscape ==
    UNCHANGED <<platform_name, configFile, config_cache, tools, cli_progress, clock, binsDir,
                binFiles, resFiles>>

\* self._escape_shell_arg(arg)
EscapeShellArgCall ==
    /\ call' = CallRecord("_escape_shell_arg", "", "", FALSE,
                          [Returned(Machine, EscapeShellArg(call.file[1], is_windows))
                              EXCEPT !.file = call.file])
    /\ UnchangedByEscape

\* line 101 of execute_command, for args of one or two arguments
CommandStringCall ==
    /\ \E args \in {<<call.file[1]>>, <<<<"a">>, call.file[1]>>} :
          call' = CallRecord("command_string", "", "", FALSE,
                             [Returned(Machine, CommandString(ShellBinary, args, is_windows))
                                 EXCEPT !.file = call.file, !.msg = args])
    /\ UnchangedByEscape

NextEscape == EscapeShellArgCall \/ CommandStringCall

SpecEscape == InitEscape /\ [][NextEscape]_vars

(***************************************************************************)
(* C22                                                                     *)
(***************************************************************************)
Arg == call.file[1]

\* C22: the platform shell reads _escape_shell_arg(a) as exactly one word
\* equal to a, for every argument a, and reads the command line of
\* execute_command as one command: the binary path followed by the arguments.
C22_EscapingRoundTrips ==
    /\ call.op = "_escape_shell_arg" =>
          ShellRead(call.val, is_windows) = OneCommand(<<Arg>>)
    /\ call.op = "command_string" =>
          ShellRead(call.val, is_windows) = OneCommand(<<ShellBinary>> \o call.msg)

\* an argument with a scheme and an ampersand went through unescaped
C22_SchemeArgumentLeftUnescaped ==
    /\ call.op = "_escape_shell_arg"
    /\ ~is_windows
    /\ Arg = <<"a", ":", "&">>
    /\ call.val = Arg
    /\ ShellRead(call.val, is_windows) = OneCommand(<<<<"a", ":">>>>)

(***************************************************************************)
(* C23                                                                     *)
(***************************************************************************)
\* the positions of the call's filesystem operations of one kind that succeeded
Done(op) == {i \in 1..Len(call.ops) : call.ops[i].op = op /\ call.ops[i].res # "error"}

Before(I, j) == \E i \in I : i < j

\* C23: on the fresh-download path of get_binary_path the transfer comes
\* first, then the executable permission (non-Windows), then the quarantine
\* attribute (macOS), and only then are older versions removed: no old
\* version is removed before the new file has been made executable.
C23_PruningComesLast ==
    (call.op = "get_binary_path" /\ NumTransfers(call.ops) > 0) =>
        /\ \A j \in Done("chmod") : Before(Done("transfer"), j)
        /\ \A j \in Done("xattr") : Before(Done("chmod"), j)
        /\ \A j \in Done("remove") :
              /\ Before(Done("transfer"), j)
              /\ ~is_windows => Before(Done("chmod"), j)
              /\ is_macos => Before(Done("xattr"), j)

\* the positions of the call's operations of one kind, failed ones included
Tried(op) == {i \in 1..Len(call.ops) : call.ops[i].op = op}

\* C23 as the code orders the steps: on the fresh-download path the transfer
\* comes first, then the older versions are removed, then the executable
\* permission is applied (non-Windows), then the quarantine attribute is
\* removed (macOS); no old version is removed before the transfer, and none
\* after the attempt to make the new file executable.
C23_PruningFollowsTheTransfer ==
    (call.op = "get_binary_path" /\ NumTransfers(call.ops) > 0) =>
        /\ \A j \in Tried("remove") :
              /\ Before(Done("transfer"), j)
              /\ ~Before(Tried("chmod"), j)
              /\ ~Before(Tried("xattr"), j)
        /\ \A j \in Tried("chmod") : Before(Done("transfer"), j)
        /\ \A j \in Tried("xattr") : Before(Done("chmod"), j)
        /\ (call.exc = "none" /\ ~is_windows) => Done("chmod") # {}
        /\ (call.exc = "none" /\ is_macos) => Tried("xattr") # {}

\* on macOS a download removed an older version, then made the new file
\* executable, then removed its quarantine attribute
C23_PrunedThenMadeExecutable ==
    /\ call.op = "get_binary_path"
    /\ call.exc = "none"
    /\ is_macos
    /\ \E r \in Done("remove"), c \in Done("chmod"), x \in Done("xattr") :
          /\ Before(Done("transfer"), r)
          /\ r < c
          /\ c < x

(***************************************************************************)
(* The reading loop of _execute_async_command beside the child process:    *)
(* the child writes lines into its two pipes and exits; the executor       *)
(* alternates process.stdout.readline() and process.stderr.readline(),     *)
(* each of which waits for a line or for the end of the stream.            *)
(***************************************************************************)
\* the lines a pipe holds before a write to it blocks
PipeCapacity == 2

\* the most lines a child writes: enough to fill a pipe and write once more
MaxWrites == PipeCapacity + 1

Streams == {"stdout", "stderr"}

\* what a child does: the streams it writes a line to, in order
Scripts == UNION {[1..n -> Streams] : n \in 0..MaxWrites}

\* the child of the call c and its exit code
ScriptOf(c) == c.file[1]

ExitCodeOf(c) == c.file[2]

\* the i-th line the child writes
LineOf(script, i) == [stream |-> script[i], n |-> i]

InitPipes ==
    /\ platform_name = GetPlatformName("Linux", "x86_64", "")
    /\ configFile = [t \in Toolkits |-> "valid"]
    /\ config_cache = EmptyDict
    /\ tools = {}
    /\ cli_progress = TRUE
    /\ clock = 0
    /\ binsDir = FALSE
    /\ binFiles = EmptyDict
    /\ resFiles = EmptyDict
    /\ \E script \in Scripts, code \in ExitCodes :
          call = [NoCall EXCEPT !.file = <<script, code>>]

UnchangedByPipes ==
    UNCHANGED <<platform_name, configFile, config_cache, tools, cli_progress, clock, binsDir,
                binFiles, resFiles>>

\* subprocess.Popen(..., stdout=PIPE, stderr=PIPE, text=True): written is
\* the number of lines the child has written, alive whether it is running,
\* pipe what each pipe holds, pc the statement the executor is at,
\* output_buffer and forwarded what the executor has buffered and has handed
\* to on_output
Popen ==
    /\ call.op = "none"
    /\ call' = [call EXCEPT !.op = "streaming",
                            !.val = [written |-> 0, alive |-> TRUE,
                                     pipe |-> [s \in Streams |-> <<>>],
                                     pc |-> "stdout", output_buffer |-> <<>>,
                                     forwarded |-> <<>>]]
    /\ UnchangedByPipes

Streaming == call.op = "streaming"

\* the child is about to write to stream s
Writing(s) ==
    /\ call.val.alive
    /\ call.val.written < Len(ScriptOf(call))
    /\ ScriptOf(call)[call.val.written + 1] = s

\* the child writes its next line: the write waits while the pipe is full
ChildWrite ==
    /\ Streaming
    /\ \E s \in Streams :
          /\ Writing(s)
          /\ Len(call.val.pipe[s]) < PipeCapacity
          /\ call' = [call EXCEPT
                         !.val.pipe[s] = Append(@, LineOf(ScriptOf(call),
                                                          call.val.written + 1)),
                         !.val.written = @ + 1]
    /\ UnchangedByPipes

\* the child has written everything and exits: its ends of the pipes close
ChildExit ==
    /\ Streaming
    /\ call.val.alive
    /\ call.val.written = Len(ScriptOf(call))
    /\ call' = [call EXCEPT !.val.alive = FALSE]
    /\ UnchangedByPipes

\* readline() on the pipe of s can return: a line is there, or the stream
\* has ended
CanRead(s) == call.val.pipe[s] # <<>> \/ ~call.val.alive

\* "stdout_line = process.stdout.readline()" / "stderr_line = ..." with the
\* "if stdout_line:" / "if stderr_line:" block of the line read; on_output
\* is given
ReadLine(s, next) ==
    /\ Streaming
    /\ call.val.pc = s
    /\ CanRead(s)
    /\ call' = IF call.val.pipe[s] = <<>>
               THEN [call EXCEPT !.val.pc = next]
               ELSE [call EXCEPT
                        !.val.pc = next,
                        !.val.pipe[s] = Tail(@),
                        !.val.output_buffer = Append(@, Head(call.val.pipe[s])),
                        !.val.forwarded =
                            Append(@, [line |-> Head(call.val.pipe[s]),
                                       is_error |-> s = "stderr"])]
    /\ UnchangedByPipes

ReadStdout == ReadLine("stdout", "stderr")

ReadStderr == ReadLine("stderr", "poll")

\* "if process.poll() is not None: break" and what follows the loop
PollProcess ==
    /\ Streaming
    /\ call.val.pc = "poll"
    /\ call' = IF call.val.alive
               THEN [call EXCEPT !.val.pc = "stdout"]
               ELSE [call EXCEPT !.op = "_execute_async_command",
                                 !.seq = 1 - @,
                                 !.val.pc = "done",
                                 !.exc = IF ExitCodeOf(call) = 0 THEN "none"
                                         ELSE "CommandFailed"]
    /\ UnchangedByPipes

NextPipes == Popen \/ ChildWrite \/ ChildExit \/ ReadStdout \/ ReadStderr \/ PollProcess

SpecPipes == InitPipes /\ [][NextPipes]_vars

(***************************************************************************)
(* C24                                                                     *)
(***************************************************************************)
StreamingEnded == call.op = "_execute_async_command"

\* the lines the child wrote before it exited
WrittenLines == {LineOf(ScriptOf(call), i) : i \in 1..call.val.written}

\* how many times a line was handed to on_output with this tag
TimesForwarded(line, is_error) ==
    Cardinality({i \in 1..Len(call.val.forwarded) :
                    call.val.forwarded[i] = [line |-> line, is_error |-> is_error]})

\* C24: when a streaming execution ends, every line the child wrote to
\* stdout or stderr before it exited has been handed to the output callback
\* exactly once, with its stream's tag, and is in the buffered output that
\* is returned or carried by the failure: no line is left in a pipe.
C24_EveryLineForwardedOnce ==
    StreamingEnded =>
        \A line \in WrittenLines :
            /\ TimesForwarded(line, line.stream = "stderr") = 1
            /\ TimesForwarded(line, line.stream # "stderr") = 0
            /\ \E i \in 1..Len(call.val.output_buffer) : call.val.output_buffer[i] = line

\* the child wrote two lines to stdout and exited with 0; the execution
\* returned with the first line only, the second is still in the pipe
C24_SecondLineLeftInPipe ==
    /\ StreamingEnded
    /\ call.exc = "none"
    /\ ScriptOf(call) = <<"stdout", "stdout">>
    /\ call.val.output_buffer = <<LineOf(ScriptOf(call), 1)>>
    /\ call.val.pipe["stdout"] = <<LineOf(ScriptOf(call), 2)>>

(***************************************************************************)
(* C25                                                                     *)
(***************************************************************************)
\* the executor is in readline() on the pipe of s, which has nothing to return
ExecutorWaitsOn(s) == Streaming /\ call.val.pc = s /\ ~CanRead(s)

\* the child is in a write to the full pipe of s
ChildBlockedOn(s) == Streaming /\ Writing(s) /\ Len(call.val.pipe[s]) = PipeCapacity

\* C25: the executor never waits on one stream while the child is blocked
\* writing to the other, whatever the child writes and however the two are
\* interleaved.
C25_NeverWaitingOnTheOtherStream ==
    \A s \in Streams, t \in Streams :
        s # t => ~(ExecutorWaitsOn(s) /\ ChildBlockedOn(t))

\* the child wrote to stderr until the pipe was full, and nothing to stdout;
\* the executor is in stdout.readline(): neither can take a step
C25_DeadlockOnFullStderr ==
    /\ ExecutorWaitsOn("stdout")
    /\ ChildBlockedOn("stderr")
    /\ call.val.pipe["stdout"] = <<>>
    /\ call.val.output_buffer = <<>>
    /\ ~ENABLED NextPipes

(***************************************************************************)
(* C26                                                                     *)
(***************************************************************************)
TerminalKeys == {"command_completed", "command_failed", "command_timeout", "command_error"}

\* the positions of the events with one of these keys
Keyed(events, keys) == {i \in 1..Len(events) : events[i].key \in keys}

\* C26: an execution that reports executing_command reports after it, with
\* the same correlation id, exactly one of command_completed, command_failed,
\* command_timeout and command_error; a non-zero exit is reported as
\* command_failed only.
C26_ExactlyOneTerminalEvent ==
    call.op = "execute_command" =>
        \A i \in Keyed(call.events, {"executing_command"}) :
            Cardinality({j \in Keyed(call.events, TerminalKeys) :
                            /\ j > i
                            /\ "toolGroupId" \in DOMAIN call.events[j]
                            /\ call.events[j].toolGroupId = call.events[i].toolGroupId}) = 1

\* the command exited with 1: command_failed, then command_error, under one id
C26_FailedThenError ==
    /\ call.op = "execute_command"
    /\ call.exc = "CommandFailed"
    /\ Options.out.kind = "exit"
    /\ Options.out.code = 1
    /\ \E j \in Keyed(call.events, {"command_failed"}) :
          /\ j + 1 \in Keyed(call.events, {"command_error"})
          /\ call.events[j + 1].toolGroupId = call.events[j].toolGroupId
          /\ j + 1 = Len(call.events)

(***************************************************************************)
(* C27                                                                     *)
(***************************************************************************)
\* the call c of get_binary_path looked for a binary and returned its path
Resolved27(c) == c.op = "get_binary_path" /\ ~c.skip /\ c.exc = "none"

Procs == {1, 2}

\* the calls of get_binary_path one process makes
MaxInvocations == 2

\* a process outside get_binary_path; calls counts its calls, chmodOn and
\* returned hold the state of the file when it applied the permission and
\* when it returned the path
Idle == [pc |-> "idle", calls |-> 0, chmodOn |-> "none", returned |-> "none"]

\* the state of the file at binary_path, its writers, and the two processes
Shared(c) == c.val

InitConcurrent ==
    /\ platform_name = GetPlatformName("Linux", "x86_64", "")
    /\ configFile = [t \in Toolkits |-> "valid"]
    /\ config_cache = EmptyDict
    /\ tools = {}
    /\ cli_progress = TRUE
    /\ clock = 0
    /\ binsDir = TRUE
    /\ binFiles = EmptyDict
    /\ resFiles = EmptyDict
    /\ call = [NoCall EXCEPT !.op = "concurrent",
                             !.val = [file |-> "absent", writers |-> {},
                                      proc |-> [p \in Procs |-> Idle]]]

UnchangedByConcurrent ==
    UNCHANGED <<platform_name, configFile, config_cache, tools, cli_progress, clock, binsDir,
                binFiles, resFiles>>

At(p, pc) == Shared(call).proc[p].pc = pc

\* process p calls get_binary_path(binary_name) and reaches line 277
Invoke(p) ==
    /\ At(p, "idle")
    /\ Shared(call).proc[p].calls < MaxInvocations
    /\ call' = [call EXCEPT !.val.proc[p] =
                   [pc |-> "exists", calls |-> @.calls + 1, chmodOn |-> "none",
                    returned |-> "none"]]
    /\ UnchangedByConcurrent

\* os.path.exists(binary_path)
PathExists(file) == file # "absent"

\* "if not os.path.exists(binary_path): self._download_binary_on_demand(...)"
CheckExists(p) ==
    /\ At(p, "exists")
    /\ call' = [call EXCEPT !.val.proc[p].pc =
                   IF PathExists(Shared(call).file) THEN "chmod" ELSE "download"]
    /\ UnchangedByConcurrent

\* dl.start(url=url, file_path=output_path, ...): the file is created and
\* the transfer writes into it
StartTransfer(p) ==
    /\ At(p, "download")
    /\ call' = [call EXCEPT !.val.proc[p].pc = "transfer",
                            !.val.file = "partial",
                            !.val.writers = @ \cup {p}]
    /\ UnchangedByConcurrent

\* the transfer of p has written its last byte; _handle_download_progress
\* returns, the file is verified, older versions are pruned and the
\* permission is applied (lines 497-511)
FinishTransfer(p) ==
    /\ At(p, "transfer")
    /\ call' = [call EXCEPT !.val.proc[p].pc = "chmod",
                            !.val.file = IF Shared(call).writers = {p}
                                         THEN "complete" ELSE "partial",
                            !.val.writers = @ \ {p}]
    /\ UnchangedByConcurrent

\* "os.chmod(binary_path, 0o755)" at line 287
ApplyPermissions(p) ==
    /\ At(p, "chmod")
    /\ call' = [call EXCEPT !.val.proc[p].pc = "ready",
                            !.val.proc[p].chmodOn = Shared(call).file]
    /\ UnchangedByConcurrent

\* "return binary_path"
ReturnPath(p) ==
    /\ At(p, "ready")
    /\ call' = [call EXCEPT !.val.proc[p].pc = "idle",
                            !.val.proc[p].returned = Shared(call).file]
    /\ UnchangedByConcurrent

\* someone removes the binary while nobody is writing it
RemoveBinary ==
    /\ Shared(call).file = "complete"
    /\ call' = [call EXCEPT !.val.file = "absent"]
    /\ UnchangedByConcurrent

NextConcurrent ==
    \/ \E p \in Procs :
          \/ Invoke(p)
          \/ CheckExists(p)
          \/ StartTransfer(p)
          \/ FinishTransfer(p)
          \/ ApplyPermissions(p)
          \/ ReturnPath(p)
    \/ RemoveBinary

SpecConcurrent == InitConcurrent /\ [][NextConcurrent]_vars

(***************************************************************************)
(* C28                                                                     *)
(***************************************************************************)
\* C28: of two concurrent invocations for the same binary, none applies the
\* permission or returns the path while the transfer of the other into that
\* path is in progress: the file is completely written when the permission
\* is applied and when the path is returned.
C28_ReturnedFileIsComplete ==
    \A p \in Procs :
        /\ Shared(call).proc[p].chmodOn \in {"none", "complete"}
        /\ Shared(call).proc[p].returned \in {"none", "complete"}

\* process 2 has returned the path of the file process 1 is still writing;
\* process 2 made no transfer itself
C28_ReturnedDuringTransfer ==
    /\ Shared(call).proc[2].returned = "partial"
    /\ Shared(call).proc[2].calls = 1
    /\ At(1, "transfer")
    /\ Shared(call).proc[1].calls = 1
    /\ Shared(call).writers = {1}

(***************************************************************************)
(* C29                                                                     *)
(***************************************************************************)
\* the "Download completed: <file>" line has been logged
CompletedLogged ==
    \E i \in 1..Len(call.ops) :
        call.ops[i].op = "log" /\ call.ops[i].res = "Download completed"

\* C29: _handle_download_progress logs "Download completed" only for a
\* transfer that reached 100% without the failure flag; when it raises the
\* download failure it has logged no such line.
C29_CompletedOnlyOnSuccess ==
    (Finished /\ CompletedLogged) =>
        /\ call.exc = "none"
        /\ PercentAt(Watched(call).dl, call.val.t) = 100
        /\ ~FailedAt(Watched(call).dl, call.val.t)

\* the transfer failed at 5% and the reporter raised, after logging
\* "Download completed"
C29_CompletedLoggedThenRaised ==
    /\ Finished
    /\ call.exc = "Exception"
    /\ Watched(call).dl.failsAfter = 5000
    /\ PercentAt(Watched(call).dl, call.val.t) < 100
    /\ CompletedLogged

(***************************************************************************)
(* skills/bash_skill: the execute action, with BashTool's safety checks.   *)
(* A command is the sequence of its words and of the spaces between them;  *)
(* a pattern is found in it when its words and spaces are.                 *)
(***************************************************************************)
\* the words a generated command holds
MaxWords == 3

CommandWords == {"ls", "rm", "-rf", "/", "sudo", "chown", "-R"}

\* " ".join(words)
RECURSIVE Spaced(_)
Spaced(words) ==
    IF Len(words) <= 1 THEN words
    ELSE <<words[1], " ">> \o Spaced(Tail(words))

\* the commands the model answers with: up to MaxWords words, and the same
\* with a space in front
GeneratedCommands ==
    UNION {{Spaced(w), <<" ">> \o Spaced(w)} : w \in UNION {[1..n -> CommandWords] : n \in 0..MaxWords}}

\* str.strip()
RECURSIVE Strip(_)
Strip(s) ==
    IF s = <<>> THEN s
    ELSE IF Head(s) = " " THEN Strip(Tail(s))
    ELSE IF s[Len(s)] = " " THEN Strip(SubSeq(s, 1, Len(s) - 1))
    ELSE s

\* command.lower()
CommandLower(command) == [i \in 1..Len(command) |-> IF command[i] = "-R" THEN "-r" ELSE command[i]]

\* pattern in command_lower
Found(pattern, command_lower) ==
    \E i \in 0..(Len(command_lower) - Len(pattern)) :
        \A j \in 1..Len(pattern) : command_lower[i + j] = pattern[j]

\* dangerous_patterns of is_safe_command
dangerous_patterns ==
    {<<"rm", " ", "-rf", " ", "/">>, <<"rm", " ", "-rf", " ", "/*">>, <<"mkfs">>,
     <<"dd", " ", "if=">>, <<"format">>, <<"fdisk">>, <<">", " ", "/dev/">>,
     <<"chmod", " ", "777", " ", "/">>, <<"chown", " ", "-R">>,
     <<"kill", " ", "-9", " ", "-1">>, <<"killall", " ", "-9">>, <<"fork()">>,
     <<"while", " ", "true;", " ", "do">>, <<"curl", " ", "|", " ", "sh">>,
     <<"wget", " ", "|", " ", "sh">>, <<"|", " ", "bash">>, <<"|", " ", "sh">>,
     <<"eval", " ", "$(curl">>, <<"eval", " ", "$(wget">>}

\* critical_patterns of get_command_risk_level
critical_patterns ==
    {<<"rm", " ", "-rf", " ", "/">>, <<"rm", " ", "-rf", " ", "/*">>, <<"mkfs">>,
     <<"format">>, <<"fdisk">>, <<"kill", " ", "-9", " ", "-1">>}

\* high_risk_patterns
high_risk_patterns ==
    {<<"rm", " ", "-rf">>, <<"rm", " ", "-f">>, <<"chmod", " ", "777">>,
     <<"chown", " ", "-R">>, <<"dd", " ", "if=">>, <<"killall">>, <<"pkill">>,
     <<"sudo", " ", "su">>, <<"curl", " ", "|", " ", "sh">>,
     <<"wget", " ", "|", " ", "sh">>}

\* medium_risk_patterns
medium_risk_patterns ==
    {<<"sudo">>, <<"rm", " ">>, <<"mv", " ">>, <<"cp", " ">>, <<"chmod">>, <<"chown">>,
     <<"install">>, <<"apt", " ">>, <<"yum", " ">>, <<"brew", " ">>,
     <<"pip", " ", "install">>}

\* BashTool.is_safe_command(command)
IsSafeCommand(command) ==
    \A pattern \in dangerous_patterns : ~Found(pattern, CommandLower(command))

\* BashTool.get_command_risk_level(command)
GetCommandRiskLevel(command) ==
    IF \E pattern \in critical_patterns : Found(pattern, CommandLower(command))
    THEN "critical"
    ELSE IF \E pattern \in high_risk_patterns : Found(pattern, CommandLower(command))
    THEN "high"
    ELSE IF \E pattern \in medium_risk_patterns : Found(pattern, CommandLower(command))
    THEN "medium"
    ELSE "low"

\* leon.answer({'key': key, ...})
Answer(m, key) == Report(m, key, <<>>)

\* what subprocess.run does with bash -c command: exit 0, exit 1, timeout,
\* or no launch
BashOptions == [sync |-> TRUE, timeout |-> 30]

BashOutcomes == {out \in RunOutcomes(BashOptions) : out.stdout = "" /\ out.stderr = ""}

\* BashTool.execute_bash_command(command): execute_command with bash -c
\* command and skip_binary_download; every exception becomes a result with
\* success False
ExecuteBashCommand(m, command, now, out) ==
    Then(RunCommand(FsOp(m, "execute_bash_command", Path("command", "", command), ""),
                    Path("literal", "bash", <<>>), BashOptions,
                    <<"operating_system_control", "_", "BashTool", "_", now>>,
                    FALSE, FALSE, out), LAMBDA r :
         [m |-> r.m, success |-> r.exc = "none"])

\* the answer to the result of execute_bash_command
AnswerResult(result) ==
    Answer(result.m, IF result.success THEN "command_success" ELSE "command_failed")

\* run from "risk_level = ..." on (lines 139-182)
AfterSafetyCheck(m, command, risk_level, now, out) ==
    Then(IF risk_level \in {"medium", "high", "critical"}
         THEN Answer(m, "confirmation_needed") ELSE m, LAMBDA m1 :
    IF risk_level \in {"medium", "high", "critical"} /\ risk_level \in {"high", "critical"}
    THEN Answer(m1, "cancelled")
    ELSE AnswerResult(ExecuteBashCommand(Answer(m1, "executing_command"), command, now,
                                         out)))

\* the answers of openrouter_tool.structured_completion: it raises, it fails,
\* or it succeeds with a command and a confidence
Completions(commands) ==
    {[kind |-> "raise", command |-> <<>>, confidence |-> 0],
     [kind |-> "failure", command |-> <<>>, confidence |-> 0]}
    \cup [kind : {"success"}, command : commands, confidence : {19, 20}]

\* the try block of run (lines 44-188)
Generate(m, response, now, out) ==
    CASE response.kind = "raise" -> Answer(m, "llm_error")
      [] response.kind = "failure" -> Answer(m, "llm_error")
      [] OTHER ->
           Then(Strip(response.command), LAMBDA command :
           IF command = <<>> \/ response.confidence < 20 THEN Answer(m, "invalid_command")
           ELSE IF ~IsSafeCommand(command) THEN Answer(m, "invalid_command")
           ELSE AfterSafetyCheck(m, command, GetCommandRiskLevel(command), now, out))

\* run(params) of actions/execute.py; BashTool() has its configuration
Run(m, utterance, openrouter_api_key, response, now, out) ==
    IF utterance = "" THEN Answer(m, "invalid_command")
    ELSE IF ~openrouter_api_key THEN Answer(m, "llm_error")
    ELSE Generate(Answer(m, "understanding_query"), response, now, out)

\* the command the language model will answer with is call.file[1]
InitBash ==
    /\ platform_name = GetPlatformName("Linux", "x86_64", "")
    /\ configFile = [t \in Toolkits |-> "valid"]
    /\ config_cache = EmptyDict
    /\ tools = {}
    /\ cli_progress = TRUE
    /\ clock = 0
    /\ binsDir = FALSE
    /\ binFiles = EmptyDict
    /\ resFiles = EmptyDict
    /\ \E command \in GeneratedCommands : call = [NoCall EXCEPT !.file = <<command>>]

\* the skill's execute action runs
RunCall ==
    /\ call.op = "none"
    /\ \E utterance \in {"", "list"}, openrouter_api_key \in BOOLEAN,
          response \in Completions({call.file[1]}), out \in BashOutcomes :
         \E m \in {Run(Machine, utterance, openrouter_api_key, response, clock, out)} :
             /\ call' = [call EXCEPT !.seq = 1 - @, !.op = "run", !.events = m.events,
                                     !.ops = m.ops]
             /\ UNCHANGED <<platform_name, configFile, config_cache, tools, cli_progress, clock,
                            binsDir, binFiles, resFiles>>

NextBash == RunCall

SpecBash == InitBash /\ [][NextBash]_vars

(***************************************************************************)
(* C30                                                                     *)
(***************************************************************************)
\* the commands the action has passed to execute_bash_command
ExecutedCommands ==
    {call.ops[i].path.name : i \in {j \in 1..Len(call.ops) :
                                       call.ops[j].op = "execute_bash_command"}}

\* C30: the execute action passes a generated command to
\* execute_bash_command only if the command passes is_safe_command and its
\* risk level is low; a command rated medium, high or critical is never
\* executed by the action.
C30_OnlyLowRiskIsExecuted ==
    call.op = "run" =>
        \A command \in ExecutedCommands :
            /\ IsSafeCommand(command)
            /\ GetCommandRiskLevel(command) = "low"

\* "sudo ls" is rated medium: the action asked for confirmation and executed it
C30_MediumRiskExecuted ==
    /\ call.op = "run"
    /\ ExecutedCommands = {<<"sudo", " ", "ls">>}
    /\ GetCommandRiskLevel(<<"sudo", " ", "ls">>) = "medium"
    /\ "confirmation_needed" \in EventKeys(call.events)
    /\ "cancelled" \notin EventKeys(call.events)
    /\ "command_success" \in EventKeys(call.events)

====
